---- MODULE Spec2Model ----
(***************************************************************************)
(* Model of the Cura post-processing pipeline                              *)
(*   plugins/PostProcessingPlugin/PostProcessingPlugin.py                  *)
(*   plugins/PostProcessingPlugin/scripts/DisplayInfoOnLCD.py              *)
(*                                                                         *)
(* Text representation.  A Python string that holds g-code is modelled by  *)
(* the list of its lines (what str.split("\n") returns), and a line by the *)
(* sequence of its tokens.  A token is a run of characters that the code   *)
(* never looks inside, except for the tests modelled by the predicates     *)
(* below (startswith, "in").  Numbers are written digit by digit, so that  *)
(* str() and int() are real conversions.  A section that ends with "\n"    *)
(* has an empty last line, <<>>.                                           *)
(***************************************************************************)
EXTENDS Integers, Sequences, FiniteSets, TLC

VARIABLES
    gcode_list,     \* scene.gcode_dict[active_build_plate_id]: the document
    script_list,    \* PostProcessingPlugin._script_list: the settings of each script instance
    sliced,         \* the document as the slicer produced it (history)
    calls,          \* the script calls of the last execute: input, result and exception of each
    executed,       \* number of execute() invocations so far
    status,         \* what the last execute() did: "none", "empty", "processed", "already"
    ret,            \* result of the last direct DisplayInfoOnLCD.execute call
    args,           \* inputs of the pure functions under check
    out             \* their result

vars == <<gcode_list, script_list, sliced, calls, executed, status, ret, args, out>>

(***************************************************************************)
(* Bounds                                                                  *)
(***************************************************************************)
MaxSections == 5
MaxScripts == 2
MaxRuns == 2
MaxMinutes == 130

(***************************************************************************)
(* Python built-ins on the text representation                             *)
(***************************************************************************)
Digits == <<"0", "1", "2", "3", "4", "5", "6", "7", "8", "9">>

IsDigit(c) == \E i \in 1..10 : Digits[i] = c

DigitVal(c) == (CHOOSE i \in 1..10 : Digits[i] = c) - 1

\* str(n) for an int n
RECURSIVE str(_)
str(n) ==
    IF n < 0 THEN <<"-">> \o str(-n)
    ELSE IF n < 10 THEN <<Digits[n + 1]>>
    ELSE str(n \div 10) \o <<Digits[(n % 10) + 1]>>

\* the value of a run of decimal digits
RECURSIVE DigitsVal(_)
DigitsVal(s) ==
    IF s = <<>> THEN 0 ELSE 10 * DigitsVal(SubSeq(s, 1, Len(s) - 1)) + DigitVal(s[Len(s)])

AllDigits(s) == Len(s) > 0 /\ \A i \in 1..Len(s) : IsDigit(s[i])

\* s.strip(): without the blanks at its ends
RECURSIVE strip(_)
strip(s) ==
    IF s = <<>> THEN s
    ELSE IF s[1] = " " THEN strip(Tail(s))
    ELSE IF s[Len(s)] = " " THEN strip(SubSeq(s, 1, Len(s) - 1))
    ELSE s

\* the digits of a numeral that may group them with single underscores
Ungrouped(s) == SelectSeq(s, LAMBDA c : c # "_")

\* digits, with single underscores between digits allowed
IsGroupedDigits(s) ==
    /\ Len(s) > 0
    /\ \A i \in 1..Len(s) : IsDigit(s[i]) \/ s[i] = "_"
    /\ IsDigit(s[1]) /\ IsDigit(s[Len(s)])
    /\ \A i \in 1..(Len(s) - 1) : ~(s[i] = "_" /\ s[i + 1] = "_")

\* does int(s) succeed (no ValueError): blanks around an optional sign and digits
IsIntText(s) ==
    LET u == strip(s)
    IN  IF Len(u) > 0 /\ u[1] \in {"-", "+"} THEN IsGroupedDigits(Tail(u)) ELSE IsGroupedDigits(u)

\* int(s), for s with IsIntText(s)
int(s) ==
    LET u == strip(s)
    IN  IF u[1] = "-" THEN 0 - DigitsVal(Ungrouped(Tail(u)))
        ELSE IF u[1] = "+" THEN DigitsVal(Ungrouped(Tail(u)))
        ELSE DigitsVal(Ungrouped(u))

\* index of the first token t of s with P-membership, or Len(s) + 1
RECURSIVE FirstTok(_, _, _)
FirstTok(s, toks, i) ==
    IF i > Len(s) THEN i
    ELSE IF s[i] \in toks THEN i
    ELSE FirstTok(s, toks, i + 1)

\* does float(s) succeed: digits, optionally a point and digits, optionally signed
IsFloatText(s) ==
    LET u == IF Len(s) > 0 /\ s[1] \in {"-", "+"} THEN Tail(s) ELSE s
        p == FirstTok(u, {"."}, 1)
    IN  IF p > Len(u) THEN AllDigits(u)
        ELSE /\ Len(u) > 1
             /\ \A i \in 1..Len(u) : i # p => IsDigit(u[i])

\* int(float(s)), for s with IsFloatText(s): truncation toward zero
intfloat(s) ==
    LET neg == s[1] = "-"
        u == IF s[1] \in {"-", "+"} THEN Tail(s) ELSE s
        p == FirstTok(u, {"."}, 1)
        v == DigitsVal(SubSeq(u, 1, p - 1))
    IN  IF neg THEN 0 - v ELSE v

\* line.split(":")[1]: the text between the first and the second colon.  The
\* marker tokens (";TIME:" and the like) end with the first colon of their line.
Field1(line) ==
    LET rest == Tail(line)
    IN  SubSeq(rest, 1, FirstTok(rest, {":"}, 1) - 1)

\* line.startswith(marker), for the marker prefixes the code tests
startswith(line, marker) == Len(line) > 0 /\ line[1] = marker

\* marker in line (substring test), for a marker that is a token
contains(line, marker) == \E i \in 1..Len(line) : line[i] = marker

\* marker in section: the substring test on the whole section string
SectionContains(section, marker) ==
    \E i \in 1..Len(section) : contains(section[i], marker)

\* lines.index(line): the first position holding an equal line (1-based)
index(lines, line) == CHOOSE i \in 1..Len(lines) :
    lines[i] = line /\ \A j \in 1..(i - 1) : lines[j] # line

\* lines.insert(p, x) with p the number of elements before x (Python's 0-based p)
insert(lines, p, x) ==
    LET q == IF p > Len(lines) THEN Len(lines) ELSE p
    IN  SubSeq(lines, 1, q) \o <<x>> \o SubSeq(lines, q + 1, Len(lines))

\* string concatenation section + text, both as lists of lines: the last line of
\* the section and the first line of the text become one line
concat(section, text) ==
    SubSeq(section, 1, Len(section) - 1) \o <<section[Len(section)] \o text[1]>> \o Tail(text)

\* round(num / den) of Python 3, den > 0, num >= 0: to nearest, ties to even
round(num, den) ==
    LET q == num \div den
        r == num % den
    IN  IF 2 * r > den THEN q + 1
        ELSE IF 2 * r < den THEN q
        ELSE IF q % 2 = 0 THEN q ELSE q + 1

\* int(x * speed_factor) for an int x and speed_factor = percent / 100:
\* truncation toward zero
scale(x, percent) ==
    IF x * percent >= 0 THEN (x * percent) \div 100
    ELSE 0 - ((0 - (x * percent)) \div 100)

(***************************************************************************)
(* DisplayInfoOnLCD.execute, display_progress mode                         *)
(*                                                                         *)
(* A settings record s holds the values getSettingValueByKey returns.      *)
(* speed_factor is kept as the percentage the user entered, so that        *)
(* speed_factor / 100 stays exact.  A call result is [data, exc]: data is  *)
(* the list the caller passed, as mutated in place so far, exc the         *)
(* exception that left the call ("none" when it returned data).            *)
(***************************************************************************)

\* "M117 ET <hr>hr <mmm>min" and its companions, lines 231-245
hr_of(cura_time, percent) == (cura_time * percent) \div 360000

mmm_of(cura_time, percent) == round((cura_time * percent) % 360000, 6000)

\* str(speed_factor * 100) for an integral percentage
str_percent(percent) == str(percent) \o <<".0">>

\* the loop over the lines of data[0], by position, while lines are inserted
RECURSIVE TimeLoop(_, _, _, _)
TimeLoop(s, data, lines, i) ==
    IF i > Len(lines) THEN [data |-> data, exc |-> "none"]
    ELSE IF ~startswith(lines[i], ";TIME:") THEN TimeLoop(s, data, lines, i + 1)
    ELSE IF ~IsIntText(Field1(lines[i])) THEN [data |-> data, exc |-> "ValueError"]
    ELSE
        LET tindex == index(lines, lines[i])
            cura_time == int(Field1(lines[i]))
            hr == str(hr_of(cura_time, s.speed_factor))
            mmm == str(mmm_of(cura_time, s.speed_factor))
            orig_hr == str(cura_time \div 3600)
            orig_mmm == str(round(cura_time % 3600, 60))
            l1 == IF s.add_m118_line
                  THEN insert(lines, tindex,
                              <<"M118 ", "Adjusted Print Time ">> \o hr \o <<"hr ">> \o mmm \o <<"min">>)
                  ELSE lines
            l2 == insert(l1, tindex, <<"M117 ", "ET ">> \o hr \o <<"hr ">> \o mmm \o <<"min">>)
            m117 == << <<"M117 ", "Orig Cura Est ">> \o orig_hr \o <<"hr ">>
                          \o orig_mmm \o <<"min">>, <<>> >>
            m118 == << <<"M118 ", "Est w/FudgeFactor  ">> \o str_percent(s.speed_factor)
                          \o <<"% was ">> \o hr \o <<"hr ">> \o mmm \o <<"min">>, <<>> >>
            Rest(l3) ==
                TimeLoop(s,
                         [data EXCEPT ![1] = l3,
                                      ![Len(data)] = IF s.add_m118_line
                                                     THEN concat(concat(@, m117), m118)
                                                     ELSE concat(@, m117)],
                         l3, i + 1)
        IN  Rest(insert(l2, tindex,
                        <<";Cura Time:  ">> \o orig_hr \o <<"hr ">> \o orig_mmm \o <<"min">>))

\* lines 246-249
base_display_text(s) ==
    IF ~s.display_total_layers \/ ~s.display_remaining_time THEN <<"layer ">> ELSE <<>>

\* layer.replace(";End of Gcode" + "\n", ""): every line that ends with the
\* marker and is followed by a newline loses the marker and its newline
RECURSIVE RemoveEndOfGcode(_)
RemoveEndOfGcode(section) ==
    IF Len(section) = 1 THEN section
    ELSE
        LET l == section[1]
            r == RemoveEndOfGcode(Tail(section))
        IN  IF Len(l) > 0 /\ l[Len(l)] = ";End of Gcode"
            THEN <<SubSeq(l, 1, Len(l) - 1) \o r[1]>> \o Tail(r)
            ELSE <<l>> \o r

\* lines 250-252
MoveEndOfGcode(data) ==
    [data EXCEPT ![Len(data)] =
        concat(RemoveEndOfGcode(@), << <<";End of Gcode">>, <<>> >>)]

\* lines 261-265: the marker lines of one section before the first layer
RECURSIVE ScanStart(_, _, _)
ScanStart(lines, j, acc) ==
    IF j > Len(lines) THEN acc
    ELSE IF startswith(lines[j], ";LAYER_COUNT:") THEN
        IF IsIntText(Field1(lines[j]))
        THEN ScanStart(lines, j + 1, [acc EXCEPT !.number_of_layers = int(Field1(lines[j]))])
        ELSE [acc EXCEPT !.exc = "ValueError"]
    ELSE IF startswith(lines[j], ";TIME:") THEN
        IF IsIntText(Field1(lines[j]))
        THEN ScanStart(lines, j + 1, [acc EXCEPT !.time_total = int(Field1(lines[j]))])
        ELSE [acc EXCEPT !.exc = "ValueError"]
    ELSE ScanStart(lines, j + 1, acc)

\* lines 254-265: first_layer_index is Python's 0-based index
RECURSIVE FindFirstLayer(_, _, _)
FindFirstLayer(data, idx, acc) ==
    IF idx >= Len(data) THEN acc
    ELSE IF SectionContains(data[idx + 1], ";LAYER:")
    THEN [acc EXCEPT !.first_layer_index = idx]
    ELSE
        LET Scanned(a) == IF a.exc # "none" THEN a ELSE FindFirstLayer(data, idx + 1, a)
        IN  Scanned(ScanStart(data[idx + 1], 1, acc))

\* the remaining-time text without the zero that pads the minutes
time_remaining_display_nopad(time_total, time_elapsed, percent) ==
    LET m0 == scale((time_total - time_elapsed) \div 60, percent)
        h == m0 \div 60
        m == m0 % 60
    IN  IF h > 0
        THEN <<" | ET ">> \o str(h) \o <<"h">> \o str(m) \o <<"m">>
        ELSE <<" | ET ">> \o str(m) \o <<"m">>

\* lines 283-296: the remaining-time text
time_remaining_display(time_total, time_elapsed, percent) ==
    LET m0 == scale((time_total - time_elapsed) \div 60, percent)
        h == m0 \div 60
        m == m0 % 60
    IN  IF h > 0
        THEN <<" | ET ">> \o str(h) \o <<"h">> \o (IF m < 10 THEN <<"0">> ELSE <<>>) \o str(m) \o <<"m">>
        ELSE <<" | ET ">> \o str(m) \o <<"m">>

\* a scan that never finds the elapsed-time marker
LastElapsedLine_none(lines, j) == 0

\* lines 299-304: the last ";TIME_ELAPSED:" line of the section, or 0 when none
RECURSIVE LastElapsedLine(_, _)
LastElapsedLine(lines, j) ==
    IF j < 1 THEN 0
    ELSE IF startswith(lines[j], ";TIME_ELAPSED:") THEN j
    ELSE LastElapsedLine(lines, j - 1)

\* lines 306-311: the position of the first line that starts with ";LAYER:", or 0
RECURSIVE FirstLayerLine(_, _)
FirstLayerLine(lines, j) ==
    IF j > Len(lines) THEN 0
    ELSE IF startswith(lines[j], ";LAYER:") THEN j
    ELSE FirstLayerLine(lines, j + 1)

\* display lines put in front of the first layer line
InsertDisplay_before(s, lines, display_text) ==
    LET l_index == FirstLayerLine(lines, 1)
        l1 == IF s.add_m118_line
              THEN insert(lines, l_index - 1, <<"M118 ">> \o display_text)
              ELSE lines
    IN  IF l_index = 0 THEN lines
        ELSE insert(l1, l_index - 1, <<"M117 ">> \o display_text)

\* a secondary-channel line that shows another text than the primary line
InsertDisplay_altered(s, lines, display_text) ==
    LET l_index == FirstLayerLine(lines, 1)
        l1 == IF s.add_m118_line
              THEN insert(lines, l_index, <<"M118 ", "layer ">> \o display_text)
              ELSE lines
    IN  IF l_index = 0 THEN lines
        ELSE insert(l1, l_index, <<"M117 ">> \o display_text)

\* lines 306-313: the section with the display lines after its first layer line
InsertDisplay(s, lines, display_text) ==
    LET l_index == FirstLayerLine(lines, 1)
        l1 == IF s.add_m118_line
              THEN insert(lines, l_index, <<"M118 ">> \o display_text)
              ELSE lines
    IN  IF l_index = 0 THEN lines
        ELSE insert(l1, l_index, <<"M117 ">> \o display_text)

\* the upper end of range(len(data)-2), lines 268
LayerLoopCount(data) == Len(data) - 2

\* lines 268-313: the loop over the layers, from layer_counter on
RECURSIVE LayerLoop(_, _, _, _, _, _)
LayerLoop(s, data, st, layer_counter, current_layer, time_elapsed) ==
    IF layer_counter >= LayerLoopCount(data) THEN [data |-> data, exc |-> "none"]
    ELSE
        LET cur == current_layer + 1
            layer_index == st.first_layer_index + layer_counter
        IN  IF layer_index >= Len(data) THEN [data |-> data, exc |-> "IndexError"]
            ELSE
                LET lines == data[layer_index + 1]
                    t0 == base_display_text(s) \o str(cur)
                    t1 == IF s.display_total_layers
                          THEN t0 \o <<"/">> \o str(st.number_of_layers)
                          ELSE t0
                    t2 == IF s.display_remaining_time
                          THEN t1 \o time_remaining_display(st.time_total, time_elapsed, s.speed_factor)
                          ELSE t1
                    e == LastElapsedLine(lines, Len(lines))
                    reads == s.display_remaining_time /\ cur # st.number_of_layers /\ e > 0
                IN  IF ~SectionContains(lines, ";LAYER:")
                    THEN LayerLoop(s, data, st, layer_counter + 1, current_layer, time_elapsed)
                    ELSE IF reads /\ ~IsFloatText(Field1(lines[e]))
                    THEN [data |-> data, exc |-> "ValueError"]
                    ELSE LayerLoop(s,
                                   [data EXCEPT ![layer_index + 1] = InsertDisplay(s, lines, t2)],
                                   st, layer_counter + 1, cur,
                                   IF reads THEN intfloat(Field1(lines[e])) ELSE time_elapsed)

(***************************************************************************)
(* display_progress mode, "Time To Pause" (lines 316-359)                  *)
(*                                                                         *)
(* A time is kept in hundredths of a second, which is exact for an         *)
(* integral percentage and whole seconds; the rounding error of the        *)
(* float arithmetic of the code is not modelled.  An entry of time_list is *)
(* [v, P]: the number it spells and whether it carries the "P" tag.        *)
(***************************************************************************)

\* float(line.split(":")[1]) in hundredths, for a text with IsFloatText
RECURSIVE Hundredths(_, _)
Hundredths(frac, k) ==
    IF k = 0 THEN 0
    ELSE (IF Len(frac) > 0 THEN DigitVal(frac[1]) ELSE 0) * (IF k = 2 THEN 10 ELSE 1)
         + Hundredths(IF Len(frac) > 0 THEN Tail(frac) ELSE frac, k - 1)

float100(s) ==
    LET neg == s[1] = "-"
        u == IF s[1] \in {"-", "+"} THEN Tail(s) ELSE s
        p == FirstTok(u, {"."}, 1)
        v == 100 * DigitsVal(SubSeq(u, 1, p - 1)) + Hundredths(SubSeq(u, p + 1, Len(u)), 2)
    IN  IF neg THEN 0 - v ELSE v

\* a rewrite that takes in the entry of the pause-marked section itself
RewriteToPause_inclusive(tl, pause_index, num, this_time) ==
    [q \in 1..Len(tl) |->
        IF q - 1 > pause_index /\ q - 1 <= num
        THEN [v |-> this_time - tl[q].v, P |-> TRUE]
        ELSE tl[q]]

\* lines 332-334: the entries after the previous pause become times to this pause
RewriteToPause(tl, pause_index, num, this_time) ==
    [q \in 1..Len(tl) |->
        IF q - 1 > pause_index /\ q - 1 <= num - 1
        THEN [v |-> this_time - tl[q].v, P |-> TRUE]
        ELSE tl[q]]

\* lines 327-334: the lines of section num, from line j on
RECURSIVE PauseLines(_, _, _, _, _)
PauseLines(s, lines, j, num, acc) ==
    IF j > Len(lines) THEN acc
    ELSE IF ~startswith(lines[j], ";TIME_ELAPSED:") THEN PauseLines(s, lines, j + 1, num, acc)
    ELSE IF ~IsFloatText(Field1(lines[j])) THEN [acc EXCEPT !.exc = "ValueError"]
    ELSE
        LET this_time == (float100(Field1(lines[j])) * s.speed_factor) \div 100
            tl == Append(acc.time_list, [v |-> this_time, P |-> FALSE])
        IN  IF ~SectionContains(lines, "PauseAtHeight.py")
            THEN PauseLines(s, lines, j + 1, num, [acc EXCEPT !.time_list = tl])
            ELSE IF num - 1 > acc.pause_index /\ num - 1 >= Len(tl)
            THEN [acc EXCEPT !.exc = "IndexError"]
            ELSE IF \E q \in 1..Len(tl) : q - 1 > acc.pause_index /\ q - 1 <= num - 1 /\ tl[q].P
            THEN [acc EXCEPT !.exc = "ValueError"]
            ELSE PauseLines(s, lines, j + 1, num,
                            [acc EXCEPT !.time_list = RewriteToPause(tl, acc.pause_index, num, this_time),
                                        !.pause_index = num - 1])

\* lines 324-334: the sections from num on; num is Python's 0-based index
RECURSIVE LayerTimes(_, _, _, _)
LayerTimes(s, data, num, acc) ==
    IF num >= Len(data) - 1 THEN acc
    ELSE
        LET Timed(a) == IF a.exc # "none" THEN a ELSE LayerTimes(s, data, num + 1, a)
        IN  Timed(PauseLines(s, data[num + 1], 1, num, acc))

\* lines 343-353: the text after "| TP " for a tagged value
time_to_go(alt) ==
    LET a == IF alt < 0 THEN 0 - alt ELSE alt
        sg == IF alt < 0 THEN 0 - 1 ELSE 1
        hhh == sg * (a \div 360000)
        hhr == IF hhh > 0 THEN str(hhh) \o <<"h">> ELSE <<>>
        sss == sg * ((a % 6000) \div 100)
        mmm == str(sg * round(a % 360000, 6000)) \o <<"m">>
    IN  IF hhr = <<>> THEN mmm \o str(sss) \o <<"s">> ELSE hhr \o mmm

\* the tokens that hold a "|"
BarTokens == {" | ET ", "| TP "}

HasBar(line) == \E i \in 1..Len(line) : line[i] \in BarTokens

\* line.split("|")[0] + "| TP "
ToPausePrefix(line) ==
    LET b == FirstTok(line, BarTokens, 1)
    IN  SubSeq(line, 1, b - 1) \o (IF line[b] = " | ET " THEN <<" ">> ELSE <<>>) \o <<"| TP ">>

\* does pat occur in l at position p
OccursAt(l, pat, p) == p + Len(pat) - 1 <= Len(l) /\ SubSeq(l, p, p + Len(pat) - 1) = pat

\* str.replace(pat, new) within one line, from position p on
RECURSIVE ReplaceInLine(_, _, _, _)
ReplaceInLine(l, pat, new, p) ==
    IF p > Len(l) THEN <<>>
    ELSE IF OccursAt(l, pat, p) THEN new \o ReplaceInLine(l, pat, new, p + Len(pat))
    ELSE <<l[p]>> \o ReplaceInLine(l, pat, new, p + 1)

\* layer.replace(line, new) for a non-empty line without newline
replace(layer, line, new) ==
    [k \in 1..Len(layer) |-> ReplaceInLine(layer[k], line, new, 1)]

\* lines 340-358: the lines of section num from j on; ttg is time_to_go, or
\* <<"unbound">> while the name is not assigned
RECURSIVE ToPauseLines(_, _, _, _, _)
ToPauseLines(lines, j, num, time_list, acc) ==
    IF j > Len(lines) THEN acc
    ELSE
        LET line == lines[j]
            is117 == startswith(line, "M117 ") /\ HasBar(line)
            is118 == startswith(line, "M118 ") /\ HasBar(line)
        IN  IF ~is117 /\ ~is118 THEN ToPauseLines(lines, j + 1, num, time_list, acc)
            ELSE IF num >= Len(time_list) THEN [acc EXCEPT !.exc = "IndexError"]
            ELSE IF ~time_list[num + 1].P THEN ToPauseLines(lines, j + 1, num, time_list, acc)
            ELSE IF is117 THEN
                LET ttg == time_to_go(time_list[num + 1].v)
                IN  ToPauseLines(lines, j + 1, num, time_list,
                                 [acc EXCEPT !.layer = replace(@, line, ToPausePrefix(line) \o ttg),
                                             !.ttg = ttg])
            ELSE IF acc.ttg = <<"unbound">> THEN [acc EXCEPT !.exc = "UnboundLocalError"]
            ELSE ToPauseLines(lines, j + 1, num, time_list,
                              [acc EXCEPT !.layer = replace(@, line, ToPausePrefix(line) \o acc.ttg)])

\* lines 337-359: the sections from num on
RECURSIVE ToPause(_, _, _, _)
ToPause(data, num, time_list, ttg) ==
    IF num >= Len(data) - 1 THEN [data |-> data, exc |-> "none"]
    ELSE
        LET Rewritten(a) ==
                IF a.exc # "none" THEN [data |-> data, exc |-> a.exc]
                ELSE ToPause([data EXCEPT ![num + 1] = a.layer], num + 1, time_list, a.ttg)
        IN  Rewritten(ToPauseLines(data[num + 1], 1, num, time_list,
                                   [layer |-> data[num + 1], ttg |-> ttg, exc |-> "none"]))

\* a rewrite that takes every entry of time_list for a time to pause
CountdownToPause_all(s, data) ==
    LET zero == [v |-> 0, P |-> FALSE]
        Listed(t) == IF t.exc # "none" THEN [data |-> data, exc |-> t.exc]
                     ELSE ToPause(data, 2,
                                  [q \in 1..Len(t.time_list) |-> [t.time_list[q] EXCEPT !.P = TRUE]],
                                  <<"unbound">>)
    IN  Listed(LayerTimes(s, data, 2,
                          [time_list |-> <<zero, zero>>, pause_index |-> 1, exc |-> "none"]))

\* lines 316-359
CountdownToPause(s, data) ==
    LET zero == [v |-> 0, P |-> FALSE]
        Listed(t) == IF t.exc # "none" THEN [data |-> data, exc |-> t.exc]
                     ELSE ToPause(data, 2, t.time_list, <<"unbound">>)
    IN  Listed(LayerTimes(s, data, 2,
                          [time_list |-> <<zero, zero>>, pause_index |-> 1, exc |-> "none"]))

(***************************************************************************)
(* DisplayInfoOnLCD.message_to_user: the exceptions of the start-time      *)
(* handling.  print_start_time is a sequence of one-character tokens.      *)
(***************************************************************************)

\* str.split(":")[k], k = 0 or 1, of a text that holds a colon
SplitColon(text, k) ==
    LET c == FirstTok(text, {":"}, 1)
        rest == SubSeq(text, c + 1, Len(text))
    IN  IF k = 0 THEN SubSeq(text, 1, c - 1)
        ELSE SubSeq(rest, 1, FirstTok(rest, {":"}, 1) - 1)

\* line 371: the entered start time is replaced by ""
StartTimeIgnored(print_start_time) ==
    \/ print_start_time = <<>>
    \/ print_start_time = <<"0">>
    \/ Len(print_start_time) # 5
    \/ ~contains(print_start_time, ":")

\* lines 375-376 and 390: int() of the two fields and datetime.datetime(...)
\* raise ValueError for a field that is no number or is out of range
StartTimeRaises(print_start_time) ==
    /\ ~StartTimeIgnored(print_start_time)
    /\ LET h == SplitColon(print_start_time, 0)
           m == SplitColon(print_start_time, 1)
       IN  \/ ~IsIntText(h)
           \/ ~IsIntText(m)
           \/ int(h) \notin 0..23
           \/ int(m) \notin 0..59

\* the exception that leaves message_to_user, "none" when it returns
message_to_user_exc(s) ==
    IF StartTimeRaises(s.print_start_time) THEN "ValueError" ELSE "none"

\* strftime("%H") and ("%M"): two digits
TwoDigits(n) == IF n < 10 THEN <<"0">> \o str(n) ELSE str(n)

\* lines 412-420: the hour shown and its label, for the hour H of the finish
show_hr(H) ==
    IF H > 12 THEN str(H - 12) \o <<":">>
    ELSE IF H = 0 THEN <<"1", "2", ":">>
    ELSE TwoDigits(H) \o <<":">>

show_ampm(H) == IF H > 12 THEN " PM" ELSE " AM"

\* lines 396-405: the seconds of time_change, for the seconds of the Cura print
\* time, the lag and the fudge percentage.  adj_min is int(print_seconds) / 60,
\* a float, and adj_sec is int() of what is left, 0: the time delta is the
\* adjusted time without its fraction of a second.
time_change(print_time, fifteen_minute_delay, percent) ==
    LET print_seconds == print_time + fifteen_minute_delay
        adjusted_print_time == print_seconds * percent
        adj_hr == adjusted_print_time \div 360000
        rest == adjusted_print_time - adj_hr * 360000
    IN  adj_hr * 3600 + rest \div 100

\* lines 366-432.  a is [now, print_time, print_start_time, speed_factor]: the
\* clock (hr, min, sec of time.strftime), the seconds of currentPrintTime, the
\* setting as one-character tokens and the fudge percentage.  Instants are
\* seconds from the start of today; the weekday, month, day and year of the
\* text are those of day new_time div 86400 from today.
message_to_user(a) ==
    IF StartTimeRaises(a.print_start_time) THEN [exc |-> "ValueError"]
    ELSE
        LET print_start_time == IF StartTimeIgnored(a.print_start_time) THEN <<>>
                                ELSE a.print_start_time
            entered == print_start_time # <<>>
            hr == IF entered THEN int(SplitColon(print_start_time, 0)) ELSE a.now.hr
            min == IF entered THEN int(SplitColon(print_start_time, 1)) ELSE a.now.min
            sec == IF entered THEN 0 ELSE a.now.sec
            fifteen_minute_delay == IF entered THEN 0 ELSE 900
            date_and_time == hr * 3600 + min * 60 + sec
            change == time_change(a.print_time, fifteen_minute_delay, a.speed_factor)
            new_time == date_and_time + change
            H == (new_time \div 3600) % 24
        IN  [exc |-> "none",
             print_start_time |-> print_start_time,
             date_and_time |-> date_and_time,
             time_change |-> change,
             new_time |-> new_time,
             at |-> show_hr(H) \o TwoDigits((new_time \div 60) % 60) \o <<show_ampm(H)>>,
             print_start_str |-> IF entered
                                 THEN <<"Print Start Time.................">>
                                      \o print_start_time \o <<"hrs">>
                                 ELSE <<"Print Start Time.................15 minutes from now.">>]

(***************************************************************************)
(* DisplayInfoOnLCD.execute, filename_layer mode (lines 168-212)           *)
(***************************************************************************)

\* Application.getInstance().getPrintInformation().jobName
jobName == "job"

\* getSettingValueByKey("scroll"): the script declares no such setting
scroll == FALSE

\* lines 171-174
file_name(s) == IF s.file_name # "" THEN s.file_name ELSE jobName

\* lines 170-180
lcd_text(s) ==
    <<"M117 ">> \o (IF s.addPrefixPrinting THEN <<"Printing ">> ELSE <<>>)
                \o (IF ~scroll THEN <<"Layer ">> ELSE <<file_name(s), " - Layer ">>)

\* lines 193-201: the text of a display line, from the text built so far
layer_display_text(s, display_text, max_layer) ==
    IF s.maxlayer
    THEN display_text \o <<" of ">> \o max_layer.text
                      \o (IF ~scroll THEN <<" ", file_name(s)>> ELSE <<>>)
    ELSE IF ~scroll THEN display_text \o <<" ", file_name(s), "!">>
    ELSE display_text \o <<"!">>

\* lines 186-206: the lines of one section, by position, while lines are inserted.
\* max_layer is [set, text]: set is FALSE while max_layer is still the int 0.
RECURSIVE FilenameLines(_, _, _, _)
FilenameLines(s, lines, j, acc) ==
    IF j > Len(lines) THEN [acc EXCEPT !.lines = lines]
    ELSE
        LET line == lines[j]
            a1 == IF ~startswith(line, ";LAYER_COUNT:") THEN acc
                  ELSE IF s.startNum # 0
                  THEN [acc EXCEPT !.max_layer = [set |-> TRUE, text |-> Field1(line)]]
                  ELSE IF ~IsIntText(Field1(line)) THEN [acc EXCEPT !.exc = "ValueError"]
                  ELSE [acc EXCEPT !.max_layer = [set |-> TRUE, text |-> str(int(Field1(line)) - 1)]]
        IN  IF a1.exc # "none" THEN a1
            ELSE IF ~startswith(line, ";LAYER:") THEN FilenameLines(s, lines, j + 1, a1)
            ELSE IF s.maxlayer /\ ~a1.max_layer.set THEN [a1 EXCEPT !.exc = "TypeError"]
            ELSE
                LET display_text == layer_display_text(s, a1.display_text, a1.max_layer)
                    line_index == index(lines, line)
                    l1 == insert(lines, line_index, display_text)
                    l2 == IF s.add_m118_line
                          THEN insert(l1, line_index + 1, [display_text EXCEPT ![1] = "M118 "])
                          ELSE l1
                IN  FilenameLines(s, l2, j + 1,
                                  [a1 EXCEPT !.display_text = display_text, !.i = a1.i + 1])

\* lines 182-208: the sections of data from position k (1-based) on
RECURSIVE FilenameLoop(_, _, _, _, _)
FilenameLoop(s, data, k, max_layer, i) ==
    IF k > Len(data) THEN [data |-> data, exc |-> "none"]
    ELSE
        LET layer == data[k]
            layer_index == index(data, layer)
            Joined(a) ==
                IF a.exc # "none" THEN [data |-> data, exc |-> a.exc]
                ELSE FilenameLoop(s, [data EXCEPT ![layer_index] = a.lines], k + 1, a.max_layer, a.i)
        IN  Joined(FilenameLines(s, layer, 1,
                                 [lines |-> layer, display_text |-> lcd_text(s) \o str(i),
                                  max_layer |-> max_layer, i |-> i, exc |-> "none"]))

\* lines 168-212
FilenameLayer(s, data) ==
    LET Finish(a) ==
            IF a.exc # "none" THEN a
            ELSE IF s.enable_end_message /\ message_to_user_exc(s) # "none"
            THEN [data |-> a.data, exc |-> message_to_user_exc(s)]
            ELSE a
    IN  Finish(FilenameLoop(s, data, 1, [set |-> FALSE, text |-> <<>>], s.startNum))

(***************************************************************************)
(* DisplayInfoOnLCD.execute                                                *)
(***************************************************************************)

\* lines 215-363
DisplayProgress(s, data) ==
    LET \* lines 361-362
        Finish(d) ==
            IF d.exc # "none" THEN d
            ELSE IF s.enable_end_message /\ message_to_user_exc(s) # "none"
            THEN [data |-> d.data, exc |-> message_to_user_exc(s)]
            ELSE d
        \* lines 316-359
        Layered(c) ==
            IF c.exc # "none" THEN c
            ELSE IF s.countdown_to_pause THEN Finish(CountdownToPause(s, c.data))
            ELSE Finish(c)
        \* lines 267-313
        Found(b, st) ==
            IF st.exc # "none" THEN [data |-> b, exc |-> st.exc]
            ELSE Layered(LayerLoop(s, b, st, 0, 0, 0))
        \* lines 254-265
        Moved(b) ==
            Found(b, FindFirstLayer(b, 0, [first_layer_index |-> 0, number_of_layers |-> 0,
                                           time_total |-> 0, exc |-> "none"]))
        \* lines 250-252
        Timed(a) == IF a.exc # "none" THEN a ELSE Moved(MoveEndOfGcode(a.data))
    IN  Timed(TimeLoop(s, data, data[1], 1))

\* lines 163-364
DisplayInfoOnLCD_execute(s, data) ==
    IF s.display_option = "filename_layer" THEN FilenameLayer(s, data)
    ELSE IF s.display_option = "display_progress" THEN DisplayProgress(s, data)
    ELSE [data |-> data, exc |-> "none"]

(***************************************************************************)
(* PostProcessingPlugin.execute                                            *)
(***************************************************************************)

\* a pipeline that handed each script a copy: a failed call would leave no trace
DocumentAfter_copy(input, r) == IF r.exc = "none" THEN r.data ELSE input

\* lines 76-79: what gcode_list names after the call of one script.  The script
\* mutates the list it is given, so the caller sees r.data whether the call
\* returned it or raised.
DocumentAfter(input, r) == r.data

\* a loop that hands every script the document the first script was given
RECURSIVE RunScripts_unchained(_, _, _, _)
RunScripts_unchained(scripts, k, gcode, log) ==
    IF k > Len(scripts) THEN [data |-> gcode, calls |-> log, exc |-> "none"]
    ELSE
        LET first == IF log = <<>> THEN gcode ELSE log[1].input
            Logged(r) == [script |-> scripts[k], input |-> first, exc |-> r.exc, data |-> r.data]
            Continue(call) == RunScripts_unchained(scripts, k + 1, call.data, Append(log, call))
        IN  Continue(Logged(DisplayInfoOnLCD_execute(scripts[k], first)))

\* a loop without the try/except: the first exception leaves the loop
RECURSIVE RunScripts_uncaught(_, _, _, _)
RunScripts_uncaught(scripts, k, gcode, log) ==
    IF k > Len(scripts) THEN [data |-> gcode, calls |-> log, exc |-> "none"]
    ELSE
        LET Logged(r) == [script |-> scripts[k], input |-> gcode, exc |-> r.exc, data |-> r.data]
            Continue(call) ==
                IF call.exc # "none"
                THEN [data |-> call.data, calls |-> Append(log, call), exc |-> call.exc]
                ELSE RunScripts_uncaught(scripts, k + 1, call.data, Append(log, call))
        IN  Continue(Logged(DisplayInfoOnLCD_execute(scripts[k], gcode)))

\* lines 75-79: the scripts from position k on; every exception is caught
RECURSIVE RunScripts(_, _, _, _)
RunScripts(scripts, k, gcode, log) ==
    IF k > Len(scripts) THEN [data |-> gcode, calls |-> log, exc |-> "none"]
    ELSE
        LET Logged(r) == [script |-> scripts[k], input |-> gcode, exc |-> r.exc,
                          data |-> DocumentAfter(gcode, r)]
            Continue(call) == RunScripts(scripts, k + 1, call.data, Append(log, call))
        IN  Continue(Logged(DisplayInfoOnLCD_execute(scripts[k], gcode)))

\* line 74
AlreadyProcessed(gcode) == SectionContains(gcode[1], ";POSTPROCESSED")

\* no marker at all
MarkProcessed_never(scripts, gcode) == gcode

\* the marker whatever the script list
MarkProcessed_always(scripts, gcode) ==
    [gcode EXCEPT ![1] = concat(@, << <<";POSTPROCESSED">>, <<>> >>)]

\* lines 80-81
MarkProcessed(scripts, gcode) ==
    IF Len(scripts) # 0
    THEN [gcode EXCEPT ![1] = concat(@, << <<";POSTPROCESSED">>, <<>> >>)]
    ELSE gcode

\* lines 59-85, the writeStarted handler
execute ==
    /\ executed < MaxRuns
    /\ executed' = executed + 1
    /\ IF gcode_list = <<>>
       THEN /\ status' = "empty"
            /\ calls' = <<>>
            /\ UNCHANGED gcode_list
       ELSE IF ~AlreadyProcessed(gcode_list)
       THEN \E r \in {RunScripts(script_list, 1, gcode_list, <<>>)} :
                /\ calls' = r.calls
                /\ IF r.exc # "none"
                   THEN /\ status' = "raised"
                        /\ gcode_list' = r.data
                   ELSE /\ status' = "processed"
                        /\ gcode_list' = MarkProcessed(script_list, r.data)
       ELSE /\ status' = "already"
            /\ calls' = <<>>
            /\ UNCHANGED gcode_list
    /\ UNCHANGED <<script_list, sliced, ret, args, out>>

(***************************************************************************)
(* Inputs: documents and settings                                          *)
(***************************************************************************)

\* The kinds of section a document is built from:
\*   "P" preamble with ";TIME:3600" and ";LAYER_COUNT:3"
\*   "B" a section without any marker (and without a final newline)
\*   "L" a layer: ";LAYER:<n>", a move, ";TIME_ELAPSED:<t>"
\*   "M" a section with two layer markers
\*   "E" epilogue with ";End of Gcode"
\*   "Q" preamble that already carries ";POSTPROCESSED"
\*   "S" the start-up section between the preamble and the first layer
\*   "T" a layer whose elapsed time is a multiple of 450 s
\*   "H" a "T" layer that begins with the lines of PauseAtHeight.py
Kinds == {"P", "B", "L", "M", "E"}

\* the elapsed time that closes the layer section of the given rank (1, 2, ...)
ElapsedAt(rank) == 1200 * (rank - 1)

\* the elapsed time that closes a "T" or "H" section: x / 3600 and the minutes
\* and seconds the code derives from it are then exact in binary floating point
PauseElapsedAt(rank) == 450 * rank

SectionOf(kind, n, rank) ==
    CASE kind = "P" -> << <<";TIME:", "3", "6", "0", "0">>, <<";LAYER_COUNT:", "3">>, <<>> >>
      [] kind = "Q" -> << <<";TIME:", "3", "6", "0", "0">>, <<";LAYER_COUNT:", "3">>,
                          <<";POSTPROCESSED">>, <<>> >>
      [] kind = "B" -> << <<"G1">> >>
      [] kind = "L" -> << <<";LAYER:">> \o str(n), <<"G1">>,
                          <<";TIME_ELAPSED:">> \o str(ElapsedAt(rank)), <<>> >>
      [] kind = "M" -> << <<";LAYER:">> \o str(n), <<"G1">>, <<";LAYER:">> \o str(n + 1),
                          <<";TIME_ELAPSED:">> \o str(ElapsedAt(rank)), <<>> >>
      [] kind = "E" -> << <<"M104">>, <<";End of Gcode">>, <<>> >>
      [] kind = "S" -> << <<"G28">>, <<>> >>
      [] kind = "T" -> << <<";LAYER:">> \o str(n), <<"G1">>,
                          <<";TIME_ELAPSED:">> \o str(PauseElapsedAt(rank)), <<>> >>
      [] kind = "H" -> << <<";script: ", "PauseAtHeight.py">>, <<"M0">>,
                          <<";LAYER:">> \o str(n), <<"G1">>,
                          <<";TIME_ELAPSED:">> \o str(PauseElapsedAt(rank)), <<>> >>

\* the document of a shape (a sequence of kinds): layers are numbered from 0
RECURSIVE BuildDoc(_, _, _, _)
BuildDoc(shape, k, n, rank) ==
    IF k > Len(shape) THEN <<>>
    ELSE <<SectionOf(shape[k], n, rank)>>
         \o BuildDoc(shape, k + 1,
                     n + (IF shape[k] \in {"L", "T", "H"} THEN 1 ELSE IF shape[k] = "M" THEN 2 ELSE 0),
                     rank + (IF shape[k] \in {"L", "M", "T", "H"} THEN 1 ELSE 0))

\* A shape starts with a preamble, a marker-less section or a layer, and only
\* its last section may be the epilogue; a single section may be of any kind.
Shapes(maxlen) ==
    {sh \in UNION {[1..len -> Kinds] : len \in 1..maxlen} :
        /\ \A k \in 2..Len(sh) : sh[k] # "P"
        /\ \A k \in 1..(Len(sh) - 1) : sh[k] # "E"}

Docs(maxlen) == {BuildDoc(sh, 1, 0, 1) : sh \in Shapes(maxlen)}

\* The documents with pause markers: preamble, start-up section, up to
\* maxlen - 3 sections that are layers, pause-marked layers or marker-less, and
\* the epilogue.
PauseShapes(maxlen) ==
    {<<"P", "S">> \o mid \o <<"E">> :
        mid \in UNION {[1..len -> {"T", "H", "B"}] : len \in 1..(maxlen - 3)}}

PauseDocs(maxlen) == {BuildDoc(sh, 1, 0, 1) : sh \in PauseShapes(maxlen)}

\* the settings of a script instance, from the defaults of lines 42-161
Defaults ==
    [display_option |-> "display_progress", file_name |-> "", startNum |-> 0, maxlayer |-> TRUE,
     addPrefixPrinting |-> TRUE, display_total_layers |-> TRUE, display_remaining_time |-> TRUE,
     add_m118_line |-> FALSE, speed_factor |-> 100, countdown_to_pause |-> FALSE,
     enable_end_message |-> TRUE, print_start_time |-> <<>>]

ProgressSettings ==
    {[Defaults EXCEPT !.display_total_layers = t, !.display_remaining_time = r,
                      !.add_m118_line = m, !.countdown_to_pause = c]
        : t \in BOOLEAN, r \in BOOLEAN, m \in BOOLEAN, c \in BOOLEAN}

FilenameSettings ==
    {[Defaults EXCEPT !.display_option = "filename_layer", !.startNum = n, !.maxlayer = x,
                      !.add_m118_line = m]
        : n \in {0, 1}, x \in BOOLEAN, m \in BOOLEAN}

\* a start time that passes the test of line 371 and is no time
BadStartTime == <<"a", "b", ":", "c", "d">>

Settings == ProgressSettings \cup FilenameSettings
            \cup {[Defaults EXCEPT !.print_start_time = BadStartTime],
                  [Defaults EXCEPT !.speed_factor = 150]}

\* the settings the documents with pause markers are processed under
PauseSettings ==
    ProgressSettings
    \cup {[Defaults EXCEPT !.countdown_to_pause = TRUE, !.speed_factor = 150, !.add_m118_line = m]
             : m \in BOOLEAN}

NotCalled == [called |-> FALSE, data |-> <<>>, exc |-> "none"]

NoArgs == [time_total |-> 0, time_elapsed |-> 0, speed_factor |-> 100]

(***************************************************************************)
(* SpecLCD: one call of DisplayInfoOnLCD.execute on a sliced document      *)
(***************************************************************************)
InitLCD ==
    /\ \/ /\ gcode_list \in Docs(MaxSections)
          /\ script_list \in {<<s>> : s \in Settings}
       \/ /\ gcode_list \in PauseDocs(MaxSections + 1)
          /\ script_list \in {<<s>> : s \in PauseSettings}
    /\ sliced = gcode_list
    /\ calls = <<>>
    /\ executed = 0
    /\ status = "none"
    /\ ret = NotCalled
    /\ args = NoArgs
    /\ out = <<>>

CallScript ==
    /\ ~ret.called
    /\ \E r \in {DisplayInfoOnLCD_execute(script_list[1], gcode_list)} :
           /\ ret' = [called |-> TRUE, data |-> r.data, exc |-> r.exc]
           /\ gcode_list' = r.data
    /\ UNCHANGED <<script_list, sliced, calls, executed, status, args, out>>

NextLCD == CallScript

SpecLCD == InitLCD /\ [][NextLCD]_vars

(***************************************************************************)
(* Spec: the pipeline.  A sliced document, a script list, and the          *)
(* writeStarted event firing up to MaxRuns times.                          *)
(***************************************************************************)
PipelineSettings ==
    {Defaults,
     [Defaults EXCEPT !.print_start_time = BadStartTime],
     [Defaults EXCEPT !.display_option = "filename_layer"],
     [Defaults EXCEPT !.display_option = "filename_layer", !.startNum = 1,
                      !.add_m118_line = TRUE, !.enable_end_message = FALSE]}

ScriptLists == UNION {[1..len -> PipelineSettings] : len \in 0..MaxScripts}

PipelineDocs ==
    LET docs == Docs(MaxSections - 1)
    IN  docs \cup {<<>>}
             \cup {[d EXCEPT ![1] = SectionOf("Q", 0, 1)] : d \in {x \in docs : x[1] = SectionOf("P", 0, 1)}}

Init ==
    /\ gcode_list \in PipelineDocs
    /\ sliced = gcode_list
    /\ script_list \in ScriptLists
    /\ calls = <<>>
    /\ executed = 0
    /\ status = "none"
    /\ ret = NotCalled
    /\ args = NoArgs
    /\ out = <<>>

Next == execute

Spec == Init /\ [][Next]_vars

(***************************************************************************)
(* SpecMsg: message_to_user as a function of the clock, the print time,    *)
(* the entered start time and the fudge factor                             *)
(***************************************************************************)

\* the entered start times: none, "0", well-formed ones, and malformed ones
StartTexts ==
    {<<>>, <<"0">>,
     <<"0", "7", ":", "3", "0">>, <<"0", "0", ":", "0", "0">>,
     <<"1", "1", ":", "0", "0">>, <<"2", "3", ":", "5", "9">>,
     <<"7", ":", "3", "0">>, <<"0", "7", ".", "3", "0">>,
     <<"0", "7", ":", "3", "0", ":", "0", "0">>,
     BadStartTime, <<"2", "5", ":", "0", "0">>, <<"1", "2", ":", "6", "0">>,
     <<"1", ":", "2", ":", "3">>, <<" ", "7", ":", "3", "0">>,
     <<"-", "1", ":", "3", "0">>, <<"1", "_", "0", ":", "5">>}

\* the fudge factors, in percent
FudgePercents == {87, 100, 150}

\* the seconds of the Cura print time
PrintTimes == {0, 2700, 3600, 36000}

\* the clock at the call
Clocks == [hr : 0..23, min : {0, 45}, sec : {0, 30}]

MsgArgs ==
    [now : Clocks, print_time : PrintTimes, print_start_time : StartTexts,
     speed_factor : FudgePercents]

InitMsg ==
    /\ args \in MsgArgs
    /\ out = <<>>
    /\ gcode_list = <<>>
    /\ sliced = <<>>
    /\ script_list = <<>>
    /\ calls = <<>>
    /\ executed = 0
    /\ status = "none"
    /\ ret = NotCalled

ShowFinishTime ==
    /\ out = <<>>
    /\ out' = message_to_user(args)
    /\ UNCHANGED <<gcode_list, script_list, sliced, calls, executed, status, ret, args>>

NextMsg == ShowFinishTime

SpecMsg == InitMsg /\ [][NextMsg]_vars

(***************************************************************************)
(* PostProcessingPlugin.loadAllScripts and loadScripts (lines 117-171)     *)
(*                                                                         *)
(* A scripts folder is a function from the script names to what the file   *)
(* of that name is, or "absent"; a root whose folder neither exists nor    *)
(* can be created is NoFolder.  The state of the plugin is a record        *)
(* [loaded_scripts, script_labels, sys_modules, loads]: the two tables of  *)
(* lines 31-32 as functions over their keys, the names in sys.modules, and *)
(* the number of calls made.                                               *)
(***************************************************************************)

MaxLoads == 2

ScriptNames == <<"a", "b">>

\* what a script file is:
\*   "keyed"      its setting data hold "name" and "key"
\*   "unkeyed"    its setting data lack one of them
\*   "notscript"  its class has no getSettingData (AttributeError)
\*   "nosettings" getSettingData raises NotImplementedError
\*   "broken"     executing the module raises
FileKinds == {"keyed", "unkeyed", "notscript", "nosettings", "broken"}

NoFolder == <<>>

Folders == [1..Len(ScriptNames) -> FileKinds \cup {"absent"}] \cup {NoFolder}

\* setting_data["key"] and setting_data["name"] of the keyed script of a name
SettingKey(script_name) == script_name \o "_key"

SettingName(script_name) == script_name \o "_name"

\* d[key] = value on a dictionary
SetItem(d, key, value) ==
    [k \in DOMAIN d \cup {key} |-> IF k = key THEN value ELSE d[k]]

\* lines 147-171: one script file of the folder of a root
LoadScript(st, root, script_name, kind) ==
    IF script_name \in st.sys_modules \/ kind = "broken" THEN st
    ELSE
        LET imported == [st EXCEPT !.sys_modules = @ \cup {script_name}]
            loaded_class == [root |-> root, script_name |-> script_name]
        IN  CASE kind = "keyed" ->
                    [imported EXCEPT
                        !.script_labels = SetItem(@, SettingKey(script_name), SettingName(script_name)),
                        !.loaded_scripts = SetItem(@, SettingKey(script_name), loaded_class)]
              [] kind = "unkeyed" ->
                    [imported EXCEPT
                        !.script_labels = SetItem(@, script_name, script_name),
                        !.loaded_scripts = SetItem(@, script_name, loaded_class)]
              [] OTHER -> imported

\* lines 145-171: the files of a folder from position i on
RECURSIVE LoadFiles(_, _, _, _)
LoadFiles(st, root, folder, i) ==
    IF i > Len(ScriptNames) THEN st
    ELSE IF folder[i] = "absent" THEN LoadFiles(st, root, folder, i + 1)
    ELSE LoadFiles(LoadScript(st, root, ScriptNames[i], folder[i]), root, folder, i + 1)

\* lines 139-171
loadScripts(st, root, folder) ==
    IF DOMAIN st.loaded_scripts # {} THEN st
    ELSE LoadFiles(st, root, folder, 1)

\* lines 125-134: the roots from root on
RECURSIVE LoadRoots(_, _, _)
LoadRoots(st, folders, root) ==
    IF root > Len(folders) THEN st
    ELSE IF folders[root] = NoFolder THEN LoadRoots(st, folders, root + 1)
    ELSE LoadRoots(loadScripts(st, root, folders[root]), folders, root + 1)

\* the plugin after __init__ (lines 31-32)
NothingLoaded(modules) ==
    [loaded_scripts |-> <<>>, script_labels |-> <<>>, sys_modules |-> modules, loads |-> 0]

(***************************************************************************)
(* SpecLoad: the three roots hold any folders; loadAllScripts is called up *)
(* to MaxLoads times.  args holds the folders, out the state of the plugin.*)
(***************************************************************************)
InitLoad ==
    /\ args \in [folders : [1..3 -> Folders]]
    /\ out \in {NothingLoaded(m) : m \in {{}, {ScriptNames[Len(ScriptNames)]}}}
    /\ gcode_list = <<>>
    /\ sliced = <<>>
    /\ script_list = <<>>
    /\ calls = <<>>
    /\ executed = 0
    /\ status = "none"
    /\ ret = NotCalled

loadAllScripts ==
    /\ out.loads < MaxLoads
    /\ out' = [LoadRoots(out, args.folders, 1) EXCEPT !.loads = @ + 1]
    /\ UNCHANGED <<gcode_list, script_list, sliced, calls, executed, status, ret, args>>

NextLoad == loadAllScripts

SpecLoad == InitLoad /\ [][NextLoad]_vars

(***************************************************************************)
(* SpecTP: the time-to-pause label as a function of the tagged value.  The *)
(* values are the multiples of 56.25 s, for which the hours, minutes and   *)
(* seconds of lines 344-350 are exact in binary floating point.  args      *)
(* holds the value in hundredths of a second, out the label.               *)
(***************************************************************************)
MaxTicks == 128

InitTP ==
    /\ args \in [alt : {5625 * k : k \in 0..MaxTicks}]
    /\ out = <<>>
    /\ gcode_list = <<>>
    /\ sliced = <<>>
    /\ script_list = <<>>
    /\ calls = <<>>
    /\ executed = 0
    /\ status = "none"
    /\ ret = NotCalled

FormatTimeToPause ==
    /\ out = <<>>
    /\ out' = time_to_go(args.alt)
    /\ UNCHANGED <<gcode_list, script_list, sliced, calls, executed, status, ret, args>>

NextTP == FormatTimeToPause

SpecTP == InitTP /\ [][NextTP]_vars

(***************************************************************************)
(* The script list of PostProcessingPlugin and its persistence in the      *)
(* metadata of the global container stack (lines 87-115, 188-251).         *)
(*                                                                         *)
(* A text is a sequence of one-character strings.  A script instance is a  *)
(* record [key, settings] with settings a sequence of [key, value] in the  *)
(* order of getSettingData()["settings"].  The plugin is the record of     *)
(* NothingLoaded extended by script_list, selected_script_index and        *)
(* metadata: the "post_processing_scripts" entry of the global stack,      *)
(* NoEntry when the stack has none.  A parsed config file is a sequence of *)
(* sections [name, options], options a sequence of [key, lines].           *)
(***************************************************************************)

MaxValueLen == 3

MaxListLen == 3

\* the characters of the setting values
ValueChars == {"x", "n", "\\", "\n"}

Whitespace == {" ", "\t", "\n"}

\* the setting keys a script class declares, and their default values
SettingKeysOf(script_name) == IF script_name = "a" THEN << <<"k">> >> ELSE << <<"K">> >>

DefaultValue == <<"x">>

\* loaded_class(): an instance with every setting at its default
NewScript(script_name) ==
    [key |-> script_name,
     settings |-> [i \in 1..Len(SettingKeysOf(script_name)) |->
                      [key |-> SettingKeysOf(script_name)[i], value |-> DefaultValue]]]

\* new_script._instance.setProperty(setting_key, "value", setting_value): a key
\* the script does not declare has no instance to take the value
setProperty(script, setting_key, setting_value) ==
    [script EXCEPT !.settings =
        [i \in 1..Len(@) |-> IF @[i].key = setting_key
                             THEN [@[i] EXCEPT !.value = setting_value]
                             ELSE @[i]]]

\* str.lower() of one character, the optionxform of ConfigParser
lower(c) == IF c = "K" THEN "k" ELSE c

\* s.lstrip() and s.rstrip()
RECURSIVE lstrip(_)
lstrip(s) == IF s # <<>> /\ s[1] \in Whitespace THEN lstrip(Tail(s)) ELSE s

RECURSIVE rstrip(_)
rstrip(s) ==
    IF s # <<>> /\ s[Len(s)] \in Whitespace THEN rstrip(SubSeq(s, 1, Len(s) - 1)) ELSE s

\* text.split(sep) for a one-character sep
RECURSIVE split(_, _)
split(text, sep) ==
    IF \A i \in 1..Len(text) : text[i] # sep THEN <<text>>
    ELSE LET p == CHOOSE i \in 1..Len(text) : text[i] = sep /\ \A j \in 1..(i - 1) : text[j] # sep
         IN  <<SubSeq(text, 1, p - 1)>> \o split(SubSeq(text, p + 1, Len(text)), sep)

\* sep.join(texts)
RECURSIVE join(_, _)
join(texts, sep) ==
    IF texts = <<>> THEN <<>>
    ELSE IF Len(texts) = 1 THEN texts[1]
    ELSE texts[1] \o sep \o join(Tail(texts), sep)

\* ConfigParser.write of the options of a section: "<key> = <value>\n" with
\* every newline of the value followed by a tab; the key went through
\* optionxform when it was set (line 238)
RECURSIVE WriteOptions(_, _)
WriteOptions(settings, i) ==
    IF i > Len(settings) THEN <<>>
    ELSE [c \in 1..Len(settings[i].key) |-> lower(settings[i].key[c])] \o <<" ", "=", " ">>
         \o ReplaceInLine(settings[i].value, <<"\n">>, <<"\n", "\t">>, 1)
         \o <<"\n">> \o WriteOptions(settings, i + 1)

\* lines 233-242: the config file of one script, "[<key>]\n<options>\n"
Serialize(script) ==
    <<"[", script.key, "]", "\n">> \o WriteOptions(script.settings, 1) \o <<"\n">>

\* line 243
Escape(script_str) ==
    ReplaceInLine(ReplaceInLine(script_str, <<"\\">>, <<"\\", "\\">>, 1),
                  <<"\n">>, <<"\\", "n">>, 1)

\* line 211
Unescape(script_str) ==
    ReplaceInLine(ReplaceInLine(script_str, <<"\\", "n">>, <<"\n">>, 1),
                  <<"\\", "\\">>, <<"\\">>, 1)

\* lines 231-246: the text that goes into the metadata entry
ScriptListStrs(scripts) ==
    join([i \in 1..Len(scripts) |-> Escape(Serialize(scripts[i]))], <<"\n">>)

\* lines 230-251
writeScriptsToStack_of(plugin) ==
    [plugin EXCEPT !.metadata = ScriptListStrs(plugin.script_list)]

\* ConfigParser._read, one line.  st is [sections, cursect, optname, indent,
\* e, exc]: cursect the position of the current section (0: none), optname
\* the position of the current option in it (0: none), e whether a parsing
\* error is pending.
ReadLine(st, line) ==
    LET value == rstrip(lstrip(line))
        cur_indent_level == Len(line) - Len(lstrip(line))
        last_bracket == IF \E i \in 1..Len(value) : value[i] = "]"
                        THEN CHOOSE i \in 1..Len(value) :
                                 value[i] = "]" /\ \A j \in (i + 1)..Len(value) : value[j] # "]"
                        ELSE 0
        delims == {i \in 1..Len(value) : value[i] \in {"=", ":"}}
        vi == IF delims = {} THEN 0 ELSE CHOOSE i \in delims : \A j \in delims : i <= j
        option == [i \in 1..Len(rstrip(SubSeq(value, 1, vi - 1))) |->
                      lower(rstrip(SubSeq(value, 1, vi - 1))[i])]
        optval == rstrip(lstrip(SubSeq(value, vi + 1, Len(value))))
        Append1(x) ==
            [st EXCEPT !.sections[st.cursect].options[st.optname].lines = Append(@, x)]
    IN  IF st.exc # "none" THEN st
        ELSE IF value = <<>>
        THEN IF st.cursect > 0 /\ st.optname > 0 THEN Append1(<<>>) ELSE st
        ELSE IF st.cursect > 0 /\ st.optname > 0 /\ cur_indent_level > st.indent
        THEN Append1(value)
        ELSE IF value[1] = "[" /\ last_bracket > 2
        THEN IF \E k \in 1..Len(st.sections) :
                    st.sections[k].name = SubSeq(value, 2, last_bracket - 1)
             THEN [st EXCEPT !.exc = "DuplicateSectionError"]
             ELSE [st EXCEPT !.sections = Append(@, [name |-> SubSeq(value, 2, last_bracket - 1),
                                                     options |-> <<>>]),
                             !.cursect = Len(st.sections) + 1,
                             !.optname = 0,
                             !.indent = cur_indent_level]
        ELSE IF st.cursect = 0 THEN [st EXCEPT !.exc = "MissingSectionHeaderError"]
        ELSE IF vi = 0 THEN [st EXCEPT !.e = TRUE, !.indent = cur_indent_level]
        ELSE IF \E k \in 1..Len(st.sections[st.cursect].options) :
                    st.sections[st.cursect].options[k].key = option
        THEN [st EXCEPT !.exc = "DuplicateOptionError"]
        ELSE [st EXCEPT !.sections[st.cursect].options = Append(@, [key |-> option, lines |-> <<optval>>]),
                        !.optname = IF option = <<>> THEN 0
                                    ELSE Len(st.sections[st.cursect].options) + 1,
                        !.e = st.e \/ option = <<>>,
                        !.indent = cur_indent_level]

RECURSIVE ReadLines(_, _, _)
ReadLines(st, lines, i) ==
    IF i > Len(lines) THEN st ELSE ReadLines(ReadLine(st, lines[i]), lines, i + 1)

\* ConfigParser.read_string: the sections with their options, the lines of a
\* value joined by newlines and stripped at the right; a pending parsing
\* error is raised at the end
read_string(text) ==
    LET Joined(st) ==
            IF st.exc # "none" THEN [sections |-> <<>>, exc |-> st.exc]
            ELSE IF st.e THEN [sections |-> <<>>, exc |-> "ParsingError"]
            ELSE [sections |->
                     [k \in 1..Len(st.sections) |->
                         [name |-> st.sections[k].name,
                          options |-> [o \in 1..Len(st.sections[k].options) |->
                              [key |-> st.sections[k].options[o].key,
                               value |-> rstrip(join(st.sections[k].options[o].lines, <<"\n">>))]]]],
                  exc |-> "none"]
    IN  Joined(ReadLines([sections |-> <<>>, cursect |-> 0, optname |-> 0, indent |-> 0,
                          e |-> FALSE, exc |-> "none"],
                         split(text, "\n"), 1))

\* lines 221-223: the settings of a section put into a new script
RECURSIVE PutSettings(_, _, _)
PutSettings(script, options, o) ==
    IF o > Len(options) THEN script
    ELSE PutSettings(setProperty(script, options[o].key, options[o].value), options, o + 1)

\* lines 214-224: the sections of one parsed config file, from section k on
RECURSIVE AddSections(_, _, _)
AddSections(plugin, sections, k) ==
    IF k > Len(sections) THEN plugin
    ELSE IF sections[k].name = <<"D", "E", "F", "A", "U", "L", "T">>
            \/ Len(sections[k].name) # 1
            \/ sections[k].name[1] \notin DOMAIN plugin.loaded_scripts
    THEN AddSections(plugin, sections, k + 1)
    ELSE AddSections([plugin EXCEPT !.script_list =
                         Append(@, PutSettings(NewScript(plugin.loaded_scripts[sections[k].name[1]].script_name),
                                               sections[k].options, 1))],
                     sections, k + 1)

\* lines 208-224: the config files of the entry, from file i on; exc is the
\* exception that left the handler
RECURSIVE ReadScripts(_, _, _)
ReadScripts(plugin, strs, i) ==
    IF i > Len(strs) THEN [plugin |-> plugin, exc |-> "none"]
    ELSE IF strs[i] = <<>> THEN ReadScripts(plugin, strs, i + 1)
    ELSE LET Parsed(r) ==
                 IF r.exc # "none" THEN [plugin |-> plugin, exc |-> r.exc]
                 ELSE ReadScripts(AddSections(plugin, r.sections, 1), strs, i + 1)
         IN  Parsed(read_string(Unescape(strs[i])))

NoEntry == <<"none">>

\* lines 201-227 on a plugin whose scripts loadAllScripts has loaded: the
\* plugin afterwards and the exception that left the handler
StackChanged(plugin) ==
    LET cleared == [plugin EXCEPT !.script_list = <<>>]
        Read(r) == IF r.exc # "none" THEN r
                   ELSE [r EXCEPT !.plugin.selected_script_index = 0]
    IN  IF plugin.metadata \in {NoEntry, <<>>} THEN [plugin |-> cleared, exc |-> "none"]
        ELSE Read(ReadScripts(cleared, split(plugin.metadata, "\n"), 1))

\* lines 199-227
onGlobalContainerStackChanged(plugin, folders) ==
    StackChanged(LoadRoots(plugin, folders, 1))

\* lines 188-195; an unknown key raises KeyError at line 191
addScriptToList_of(plugin, key) ==
    IF key \notin DOMAIN plugin.loaded_scripts THEN plugin
    ELSE [plugin EXCEPT !.script_list = Append(@, NewScript(plugin.loaded_scripts[key].script_name)),
                        !.selected_script_index = Len(plugin.script_list)]

\* lines 109-115, for an index list.pop accepts
removeScriptByIndex_of(plugin, idx) ==
    LET popped == [i \in 1..(Len(plugin.script_list) - 1) |->
                      plugin.script_list[IF i <= idx THEN i ELSE i + 1]]
    IN  [plugin EXCEPT !.script_list = popped,
                       !.selected_script_index =
                           IF Len(popped) - 1 < @ THEN Len(popped) - 1 ELSE @]

\* lines 97-105; index is not tested: -1 is the last script and an index past
\* the end raises IndexError before anything is assigned
moveScript_of(plugin, idx, new_index) ==
    LET n == Len(plugin.script_list)
        from == IF idx < 0 THEN idx + n ELSE idx
    IN  IF new_index < 0 \/ new_index > n - 1 THEN plugin
        ELSE IF from < 0 \/ from > n - 1 THEN plugin
        ELSE [plugin EXCEPT !.script_list =
                 [i \in 1..n |-> IF i = new_index + 1 THEN plugin.script_list[from + 1]
                                 ELSE IF i = from + 1 THEN plugin.script_list[new_index + 1]
                                 ELSE plugin.script_list[i]]]

\* the plugin after __init__ (lines 31-38) under a stack with the given entry
NewPlugin(entry) ==
    [loaded_scripts |-> <<>>, script_labels |-> <<>>, sys_modules |-> {}, loads |-> 0,
     script_list |-> <<>>, selected_script_index |-> 0 - 1, metadata |-> entry]

\* the scripts folders: the built-in root holds the scripts a and b
ScriptFolders == << <<"unkeyed", "unkeyed">>, <<"absent", "absent">>, <<"absent", "absent">> >>

\* a script of a class that no scripts folder holds
UnknownScript == [key |-> "c", settings |-> << [key |-> <<"k">>, value |-> DefaultValue] >>]

\* the entries the stacks of the machines hold: none, an empty one, and the
\* lists some session wrote to them
StoredEntries ==
    {NoEntry, <<>>}
    \cup {ScriptListStrs(l) : l \in {<<NewScript("a")>>, <<UnknownScript>>,
                                     <<NewScript("a"), NewScript("b")>>,
                                     <<UnknownScript, NewScript("b")>>}}

(***************************************************************************)
(* SpecList: the script list under the operations of the dialog and the    *)
(* changes of the global container stack.  out is the plugin.              *)
(***************************************************************************)
InitList ==
    /\ args = [folders |-> ScriptFolders]
    /\ out \in {NewPlugin(entry) : entry \in StoredEntries}
    /\ gcode_list = <<>>
    /\ sliced = <<>>
    /\ script_list = <<>>
    /\ calls = <<>>
    /\ executed = 0
    /\ status = "none"
    /\ ret = NotCalled

\* lines 254-258: the view is created, the scripts are loaded
createView ==
    /\ DOMAIN out.loaded_scripts = {}
    /\ out' = LoadRoots(out, args.folders, 1)
    /\ UNCHANGED <<gcode_list, script_list, sliced, calls, executed, status, ret, args>>

addScriptToList ==
    /\ Len(out.script_list) < MaxListLen
    /\ \E key \in DOMAIN out.loaded_scripts : out' = addScriptToList_of(out, key)
    /\ UNCHANGED <<gcode_list, script_list, sliced, calls, executed, status, ret, args>>

removeScriptByIndex ==
    /\ \E idx \in 0..(Len(out.script_list) - 1) : out' = removeScriptByIndex_of(out, idx)
    /\ UNCHANGED <<gcode_list, script_list, sliced, calls, executed, status, ret, args>>

moveScript ==
    /\ \E idx \in (0 - 1)..Len(out.script_list), new_index \in (0 - 1)..Len(out.script_list) :
           out' = moveScript_of(out, idx, new_index)
    /\ UNCHANGED <<gcode_list, script_list, sliced, calls, executed, status, ret, args>>

\* lines 87-90, for the entry of the list the user clicks on
setSelectedScriptIndex ==
    /\ \E idx \in 0..(Len(out.script_list) - 1) : out' = [out EXCEPT !.selected_script_index = idx]
    /\ UNCHANGED <<gcode_list, script_list, sliced, calls, executed, status, ret, args>>

writeScriptsToStack ==
    /\ out' = writeScriptsToStack_of(out)
    /\ UNCHANGED <<gcode_list, script_list, sliced, calls, executed, status, ret, args>>

\* the user activates a machine whose stack holds the entry
globalContainerStackChanged ==
    /\ \E entry \in StoredEntries :
           \E r \in {onGlobalContainerStackChanged([out EXCEPT !.metadata = entry], args.folders)} :
               out' = r.plugin
    /\ UNCHANGED <<gcode_list, script_list, sliced, calls, executed, status, ret, args>>

NextList ==
    \/ createView
    \/ addScriptToList
    \/ removeScriptByIndex
    \/ moveScript
    \/ setSelectedScriptIndex
    \/ writeScriptsToStack
    \/ globalContainerStackChanged

SpecList == InitList /\ [][NextList]_vars

(***************************************************************************)
(* SpecRT: a script list with any setting values is written to the stack   *)
(* and read back.  args.script_list is the list before, status the step.   *)
(***************************************************************************)
Values(maxlen) == UNION {[1..len -> ValueChars] : len \in 0..maxlen}

\* a script instance with the value of its one setting set
ScriptWith(script_name, value) ==
    setProperty(NewScript(script_name), SettingKeysOf(script_name)[1], value)

RoundTripLists ==
    {<<>>}
    \cup {<<ScriptWith(n, v)>> : n \in {"a", "b"}, v \in Values(MaxValueLen)}
    \cup {<<ScriptWith(n, v), ScriptWith(m, w)>> :
             n \in {"a", "b"}, v \in Values(MaxValueLen), m \in {"a", "b"}, w \in Values(1)}

InitRT ==
    /\ args \in [folders : {ScriptFolders}, script_list : RoundTripLists]
    /\ out = [LoadRoots(NewPlugin(NoEntry), args.folders, 1) EXCEPT
                 !.script_list = args.script_list,
                 !.selected_script_index = Len(args.script_list) - 1]
    /\ status = "none"
    /\ gcode_list = <<>>
    /\ sliced = <<>>
    /\ script_list = <<>>
    /\ calls = <<>>
    /\ executed = 0
    /\ ret = NotCalled

SaveScripts ==
    /\ status = "none"
    /\ out' = writeScriptsToStack_of(out)
    /\ status' = "written"
    /\ UNCHANGED <<gcode_list, script_list, sliced, calls, executed, ret, args>>

ReloadScripts ==
    /\ status = "written"
    /\ \E r \in {onGlobalContainerStackChanged(out, args.folders)} :
           /\ out' = r.plugin
           /\ status' = IF r.exc = "none" THEN "reloaded" ELSE r.exc
    /\ UNCHANGED <<gcode_list, script_list, sliced, calls, executed, ret, args>>

NextRT == SaveScripts \/ ReloadScripts

SpecRT == InitRT /\ [][NextRT]_vars

(***************************************************************************)
(* Marketplace (src/plugins/Marketplace/Marketplace.py).  The extension is *)
(* a record [window, plugin_registry, connections, tab_shown,              *)
(* restart_needed]: window and plugin_registry are "None" or "set",        *)
(* connections is the number of times checkIfRestartNeeded is connected to *)
(* pluginsEnabledOrDisabledChanged.  The package manager and the plugin    *)
(* registry are a record [hasPackagesToRemoveOrInstall, changed_plugins],  *)
(* the second the number of plugins whose activation changed this session. *)
(* A handler gives [mk, exc, emitted]: the extension afterwards, the       *)
(* exception that left it, and how often showRestartNotificationChanged    *)
(* was emitted.                                                            *)
(***************************************************************************)

MaxConnections == 2

MaxChanged == 2

\* lines 21-40
NewMarketplace ==
    [window |-> "None", plugin_registry |-> "None", connections |-> 0, tab_shown |-> 0,
     restart_needed |-> FALSE]

\* lines 45-48
setTabShown(mk, tab_shown) == [mk EXCEPT !.tab_shown = tab_shown]

\* lines 73-91; loads tells whether createQmlComponent gives a window
show_of(mk, loads) ==
    LET created ==
            IF mk.window = "None"
            THEN [mk EXCEPT !.plugin_registry = "set",
                            !.connections = @ + 1,
                            !.window = IF loads THEN "set" ELSE "None"]
            ELSE mk
    IN  IF created.window = "None" THEN created ELSE setTabShown(created, 0)

\* lines 101-107
checkIfRestartNeeded(mk, env) ==
    IF env.hasPackagesToRemoveOrInstall
    THEN [mk |-> [mk EXCEPT !.restart_needed = TRUE], exc |-> "none", emitted |-> 1]
    ELSE IF mk.plugin_registry = "None"
    THEN [mk |-> mk, exc |-> "AttributeError", emitted |-> 0]
    ELSE [mk |-> [mk EXCEPT !.restart_needed = env.changed_plugins > 0],
          exc |-> "none", emitted |-> 1]

\* a signal is emitted: the handler runs once for each of its n connections
RECURSIVE Emit(_, _, _)
Emit(r, env, n) ==
    IF n = 0 \/ r.exc # "none" THEN r
    ELSE LET Called(c) == Emit([c EXCEPT !.emitted = @ + r.emitted], env, n - 1)
         IN  Called(checkIfRestartNeeded(r.mk, env))

(***************************************************************************)
(* SpecMkt: the Marketplace under show(), the tab switch and the two       *)
(* signals, in any order.  out is the extension with the last event in     *)
(* out.last, args the package manager and the plugin registry.             *)
(***************************************************************************)
NoEvent == [event |-> "none", exc |-> "none", emitted |-> 0]

InitMkt ==
    /\ args \in [hasPackagesToRemoveOrInstall : BOOLEAN, changed_plugins : {0}]
    /\ out = [mk |-> NewMarketplace, last |-> NoEvent]
    /\ gcode_list = <<>>
    /\ sliced = <<>>
    /\ script_list = <<>>
    /\ calls = <<>>
    /\ executed = 0
    /\ status = "none"
    /\ ret = NotCalled

show ==
    /\ out.mk.window = "None" => out.mk.connections < MaxConnections
    /\ \E loads \in BOOLEAN :
           out' = [mk |-> show_of(out.mk, loads), last |-> [NoEvent EXCEPT !.event = "show"]]
    /\ UNCHANGED <<gcode_list, script_list, sliced, calls, executed, status, ret, args>>

setVisibleTabToMaterials ==
    /\ out' = [mk |-> setTabShown(out.mk, 1), last |-> [NoEvent EXCEPT !.event = "setVisibleTabToMaterials"]]
    /\ UNCHANGED <<gcode_list, script_list, sliced, calls, executed, status, ret, args>>

\* the package manager installs or removes something, or takes that back, and
\* emits the signal connected at line 36
installedPackagesChanged ==
    /\ \E h \in BOOLEAN :
           /\ args' = [args EXCEPT !.hasPackagesToRemoveOrInstall = h]
           /\ \E r \in {Emit([mk |-> out.mk, exc |-> "none", emitted |-> 0], args', 1)} :
                  out' = [mk |-> r.mk,
                          last |-> [event |-> "installedPackagesChanged", exc |-> r.exc,
                                    emitted |-> r.emitted]]
    /\ UNCHANGED <<gcode_list, script_list, sliced, calls, executed, status, ret>>

\* a plugin is enabled or disabled and the registry emits the signal that
\* line 82 connects
pluginsEnabledOrDisabledChanged ==
    /\ \E c \in 0..MaxChanged :
           /\ args' = [args EXCEPT !.changed_plugins = c]
           /\ \E r \in {Emit([mk |-> out.mk, exc |-> "none", emitted |-> 0], args',
                             out.mk.connections)} :
                  out' = [mk |-> r.mk,
                          last |-> [event |-> "pluginsEnabledOrDisabledChanged", exc |-> r.exc,
                                    emitted |-> r.emitted]]
    /\ UNCHANGED <<gcode_list, script_list, sliced, calls, executed, status, ret>>

NextMkt ==
    \/ show
    \/ setVisibleTabToMaterials
    \/ installedPackagesChanged
    \/ pluginsEnabledOrDisabledChanged

SpecMkt == InitMkt /\ [][NextMkt]_vars

(***************************************************************************)
(* SpecFmt: the remaining-time text as a function of its inputs            *)
(***************************************************************************)
TotalMinutes == (0..MaxMinutes) \cup {61 * k : k \in 1..MaxMinutes}

FmtArgs ==
    {a \in [time_total : {60 * mn + sc : mn \in TotalMinutes, sc \in {0, 59}},
            time_elapsed : {0, 61, 3600},
            speed_factor : FudgePercents] : a.time_elapsed <= a.time_total}

InitFmt ==
    /\ args \in FmtArgs
    /\ out = <<>>
    /\ gcode_list = <<>>
    /\ sliced = <<>>
    /\ script_list = <<>>
    /\ calls = <<>>
    /\ executed = 0
    /\ status = "none"
    /\ ret = NotCalled

FormatRemaining ==
    /\ out = <<>>
    /\ out' = time_remaining_display(args.time_total, args.time_elapsed, args.speed_factor)
    /\ UNCHANGED <<gcode_list, script_list, sliced, calls, executed, status, ret, args>>

NextFmt == FormatRemaining

SpecFmt == InitFmt /\ [][NextFmt]_vars

(***************************************************************************)
(* Properties of the pipeline (Spec)                                       *)
(***************************************************************************)

\* the lines of a section that hold the processed-marker
MarkerLines(section) == {i \in 1..Len(section) : contains(section[i], ";POSTPROCESSED")}

\* some script of the last run raised
SomeCallRaised == \E k \in 1..Len(calls) : calls[k].exc # "none"

\* C1: once execute has run, a further execute on the resulting document runs
\* no script and changes no section: two runs give what one run gives.
C1_Idempotent ==
    [][executed >= 1 => (gcode_list' = gcode_list /\ calls' = <<>>)]_vars

C1_Witness ==
    /\ executed = 2
    /\ status = "already"
    /\ Len(script_list) > 0
    /\ sliced # <<>>
    /\ ~AlreadyProcessed(sliced)
    /\ gcode_list # sliced

\* C2: on an unprocessed document execute calls the scripts once each in list
\* order (a duplicate once per occurrence); the first script is given the sliced
\* document and script k+1 the document script k returned.
C2_ListOrder ==
    status = "processed" =>
        /\ Len(calls) = Len(script_list)
        /\ \A k \in 1..Len(calls) : calls[k].script = script_list[k]
        /\ (executed = 1 /\ Len(calls) > 0) => calls[1].input = sliced
        /\ \A k \in 1..(Len(calls) - 1) :
              calls[k].exc = "none" =>
                  calls[k + 1].input = DisplayInfoOnLCD_execute(script_list[k], calls[k].input).data

C2_Witness ==
    /\ status = "processed"
    /\ Len(calls) = 2
    /\ calls[1].script = calls[2].script
    /\ calls[1].exc = "none"
    /\ calls[2].input # calls[1].input

\* C3: when a script of the list raises, execute does not raise, every later
\* script is still called, on the document as the failing script left it, and
\* the resulting document is stored for the build plate.
C3_FailureIsolation ==
    (status \in {"processed", "raised"} /\ SomeCallRaised) =>
        /\ status = "processed"
        /\ Len(calls) = Len(script_list)
        /\ \A k \in 1..(Len(calls) - 1) :
              calls[k].exc # "none" =>
                  calls[k + 1].input = DisplayInfoOnLCD_execute(script_list[k], calls[k].input).data
        /\ gcode_list = MarkProcessed(script_list, calls[Len(calls)].data)

C3_Witness ==
    /\ status = "processed"
    /\ Len(calls) = 2
    /\ calls[1].exc # "none"
    /\ calls[2].exc = "none"
    /\ calls[2].data # calls[2].input

\* the document that the scripts which returned, and only they, produce
RECURSIVE OnlySuccessful(_, _, _)
OnlySuccessful(scripts, k, gcode) ==
    IF k > Len(scripts) THEN gcode
    ELSE
        LET r == DisplayInfoOnLCD_execute(scripts[k], gcode)
        IN  OnlySuccessful(scripts, k + 1, IF r.exc = "none" THEN r.data ELSE gcode)

\* C4 as claimed: after a run in which a script raised, the document holds the
\* work of the scripts that completed and nothing of the failing script.
C4_OnlySuccessfulScripts ==
    (executed = 1 /\ status = "processed" /\ SomeCallRaised) =>
        gcode_list = MarkProcessed(script_list, OnlySuccessful(script_list, 1, sliced))

\* C4 as amended: the document keeps what a failing script did before it raised.
\* A script that raises in its finish-message step hands on the very document it
\* returns when the finish message is disabled.
C4_FailedScriptEffectKept ==
    (executed = 1 /\ status = "processed") =>
        \A k \in 1..Len(calls) :
            LET quiet == [calls[k].script EXCEPT !.enable_end_message = FALSE]
                r == DisplayInfoOnLCD_execute(quiet, calls[k].input)
            IN  (calls[k].exc # "none" /\ r.exc = "none") =>
                    IF k < Len(calls)
                    THEN calls[k + 1].input = r.data
                    ELSE gcode_list = MarkProcessed(script_list, r.data)

C4_Witness ==
    /\ executed = 1
    /\ status = "processed"
    /\ \E k \in 1..Len(calls) :
          /\ calls[k].exc = "ValueError"
          /\ calls[k].script.print_start_time = BadStartTime
          /\ calls[k].data # calls[k].input

\* C5: after execute on a non-empty document without the processed-marker, the
\* first section ends with exactly one ";POSTPROCESSED" line when the script list
\* is non-empty, also when every script failed; with an empty list the document
\* is as it was.
C5_MarkerOnce ==
    (executed = 1 /\ sliced # <<>> /\ ~AlreadyProcessed(sliced)) =>
        IF Len(script_list) > 0
        THEN LET first == gcode_list[1]
             IN  /\ Cardinality(MarkerLines(first)) = 1
                 /\ Len(first) >= 2
                 /\ first[Len(first)] = <<>>
                 /\ Len(first[Len(first) - 1]) > 0
                 /\ first[Len(first) - 1][Len(first[Len(first) - 1])] = ";POSTPROCESSED"
                 /\ \A k \in 2..Len(gcode_list) : MarkerLines(gcode_list[k]) = {}
        ELSE gcode_list = sliced

C5_Witness ==
    /\ executed = 1
    /\ sliced # <<>>
    /\ ~AlreadyProcessed(sliced)
    /\ Len(calls) = 2
    /\ \A k \in 1..Len(calls) : calls[k].exc # "none"
    /\ Cardinality(MarkerLines(gcode_list[1])) = 1

(***************************************************************************)
(* Properties of DisplayInfoOnLCD.execute (SpecLCD)                        *)
(***************************************************************************)

\* the settings of the script that was called
TheScript == script_list[1]

\* a section with a layer-marker line
IsLayerSection(section) == \E i \in 1..Len(section) : startswith(section[i], ";LAYER:")

\* the number of layer sections among the first k sections of a document
LayerRank(doc, k) == Cardinality({j \in 1..k : IsLayerSection(doc[j])})

\* a primary display line of display_progress mode: "M117 [layer ]<ordinal>..."
IsProgressDisplay(line) ==
    /\ startswith(line, "M117 ")
    /\ Len(line) >= 2
    /\ (line[2] = "layer " \/ IsDigit(line[2]))

\* the run of digits of a line from position p on
RECURSIVE DigitRun(_, _)
DigitRun(line, p) ==
    IF p > Len(line) \/ ~IsDigit(line[p]) THEN <<>>
    ELSE <<line[p]>> \o DigitRun(line, p + 1)

\* the ordinal a display line of display_progress mode shows
ShownOrdinal(line) ==
    DigitsVal(DigitRun(line, IF line[2] = "layer " THEN 3 ELSE 2))

ProgressDisplays(section) == {i \in 1..Len(section) : IsProgressDisplay(section[i])}

\* C6 as claimed: in display_progress mode, on a document whose marker lines
\* carry well-formed numbers, the call returns whatever sections lack a layer
\* marker.  (The settings are those under which nothing but the walk over the
\* sections can raise.)
C6_NeverRaises ==
    (/\ ret.called
     /\ TheScript.display_option = "display_progress"
     /\ ~TheScript.countdown_to_pause
     /\ message_to_user_exc(TheScript) = "none") => ret.exc = "none"

\* C7 as claimed: in display_progress mode every section with a layer marker
\* gets exactly one primary display line, and the ordinals shown are 1, 2, 3, ...
\* in document order.
C7_EveryLayerNumbered ==
    (/\ ret.called
     /\ TheScript.display_option = "display_progress"
     /\ ret.exc = "none") =>
        \A k \in 1..Len(sliced) :
            IsLayerSection(sliced[k]) =>
                /\ Cardinality(ProgressDisplays(ret.data[k])) = 1
                /\ \A i \in ProgressDisplays(ret.data[k]) :
                      ShownOrdinal(ret.data[k][i]) = LayerRank(sliced, k)

\* all the lines of a document, in document order
RECURSIVE Flatten(_)
Flatten(doc) == IF doc = <<>> THEN <<>> ELSE doc[1] \o Flatten(Tail(doc))

\* the layer number a display line of filename_layer mode shows
ShownLayer(line) == DigitsVal(DigitRun(line, FirstTok(line, {"Layer "}, 1) + 1))

\* C8 as claimed: in filename_layer mode each layer-marker line is followed by a
\* display line, and the numbers shown are startNum, startNum + 1, ... in
\* document order.
C8_ContiguousLayerNumbers ==
    (/\ ret.called
     /\ TheScript.display_option = "filename_layer"
     /\ ret.exc = "none") =>
        LET all == Flatten(ret.data)
            markers == {i \in 1..Len(all) : startswith(all[i], ";LAYER:")}
        IN  \A i \in markers :
                /\ i < Len(all)
                /\ startswith(all[i + 1], "M117 ")
                /\ ShownLayer(all[i + 1]) =
                       TheScript.startNum + Cardinality({j \in markers : j < i})

\* the document of the remaining-time scenario: preamble, three layers, epilogue
ScenarioDoc == BuildDoc(<<"P", "L", "L", "L", "E">>, 1, 0, 1)

ScenarioCalled ==
    /\ ret.called
    /\ sliced = ScenarioDoc
    /\ TheScript.display_option = "display_progress"
    /\ TheScript.display_remaining_time
    /\ TheScript.speed_factor = 100

\* the text after " | ET " on the display line of section k of the result
ShownET(k) ==
    LET section == ret.data[k]
        i == CHOOSE x \in ProgressDisplays(section) : TRUE
        line == section[i]
    IN  SubSeq(line, FirstTok(line, {" | ET "}, 1) + 1, Len(line))

\* C9 as claimed: the three layers show ET 1h00m, ET 40m and ET 20m.
C9_ScenarioAsClaimed ==
    ScenarioCalled =>
        /\ ShownET(2) = <<"1", "h", "0", "0", "m">>
        /\ ShownET(3) = <<"4", "0", "m">>
        /\ ShownET(4) = <<"2", "0", "m">>

\* C9 as amended: a layer shows the time left after the elapsed-time marker that
\* closes the layer before it, so the three layers show ET 1h00m, ET 1h00m and
\* ET 40m.
C9_Scenario ==
    ScenarioCalled =>
        /\ \A k \in 2..4 : Cardinality(ProgressDisplays(ret.data[k])) = 1
        /\ ShownET(2) = <<"1", "h", "0", "0", "m">>
        /\ ShownET(3) = <<"1", "h", "0", "0", "m">>
        /\ ShownET(4) = <<"4", "0", "m">>

C9_Witness ==
    /\ ScenarioCalled
    /\ ret.exc = "none"
    /\ ShownET(4) = <<"4", "0", "m">>

\* C11: in display_progress mode the primary display line of a layer section
\* is the line right after the first layer-marker line; with the secondary
\* channel enabled its line comes right after the primary one, and with it
\* disabled the document holds no secondary-channel line.
C11_DisplayAfterMarker ==
    (ret.called /\ TheScript.display_option = "display_progress") =>
        \A k \in 1..Len(ret.data) :
            LET section == ret.data[k]
            IN  /\ \A i \in ProgressDisplays(section) :
                      /\ i > 1
                      /\ i - 1 = FirstLayerLine(section, 1)
                      /\ TheScript.add_m118_line =>
                            /\ i < Len(section)
                            /\ section[i + 1] = [section[i] EXCEPT ![1] = "M118 "]
                /\ ~TheScript.add_m118_line =>
                      \A i \in 1..Len(section) : ~startswith(section[i], "M118 ")

C11_Witness ==
    /\ ret.called
    /\ TheScript.display_option = "display_progress"
    /\ TheScript.add_m118_line
    /\ \E k \in 1..Len(ret.data) :
          \E i \in ProgressDisplays(ret.data[k]) :
              /\ i > 2
              /\ startswith(ret.data[k][i + 1], "M118 ")

\* the secondary-channel lines of a section
SecondaryLines(section) == {i \in 1..Len(section) : startswith(section[i], "M118 ")}

\* line i of the section repeats the line before it, but for the command
Mirrors(section, i) ==
    /\ i > 1
    /\ section[i - 1] = [section[i] EXCEPT ![1] = "M117 "]

PauseMarked(section) ==
    /\ SectionContains(section, "PauseAtHeight.py")
    /\ \E i \in 1..Len(section) : startswith(section[i], ";TIME_ELAPSED:")

\* the elapsed time a section of the sliced document closes with, times the
\* fudge factor, in hundredths of a second
ScaledElapsed(section) ==
    (float100(Field1(section[LastElapsedLine(section, Len(section))])) * TheScript.speed_factor)
        \div 100

\* the display lines of a section that carry a time suffix
BarLines(section) ==
    {i \in 1..Len(section) :
        /\ startswith(section[i], "M117 ") \/ startswith(section[i], "M118 ")
        /\ HasBar(section[i])}

\* the text a display line shows after "| TP ", or <<"ET">> for a line in the
\* remaining-time form
ShownTP(line) ==
    LET b == FirstTok(line, BarTokens, 1)
    IN  IF line[b] = "| TP " THEN SubSeq(line, b + 1, Len(line)) ELSE <<"ET">>

\* the positions (1-based) of the sections lines 324 and 337 walk over
PauseRange == 3..(Len(sliced) - 1)

\* the pause-marked sections of the sliced document from position k on
PausesFrom(k) == {j \in PauseRange : j >= k /\ PauseMarked(sliced[j])}

\* the least element of a non-empty set of numbers
Least(S) == CHOOSE x \in S : \A y \in S : x <= y

\* a call of display_progress mode with the countdown and the remaining time
\* enabled that returned
CountdownCalled ==
    /\ ret.called
    /\ ret.exc = "none"
    /\ TheScript.display_option = "display_progress"
    /\ TheScript.countdown_to_pause
    /\ TheScript.display_remaining_time

WithoutCountdown ==
    DisplayInfoOnLCD_execute([TheScript EXCEPT !.countdown_to_pause = FALSE], sliced).data

\* C17: with the countdown enabled, a section with no pause-marked section at
\* or after it comes out as it does with the countdown disabled: its display
\* lines keep the remaining-time form, and a document without a pause marker
\* comes out as without the pause rewrite.
C17_AfterLastPause ==
    (ret.called /\ TheScript.display_option = "display_progress" /\ TheScript.countdown_to_pause) =>
        /\ Len(ret.data) = Len(sliced)
        /\ \E plain \in {WithoutCountdown} :
               \A k \in 1..Len(sliced) :
                   PausesFrom(k) = {} =>
                       /\ ret.data[k] = plain[k]
                       /\ \A i \in BarLines(ret.data[k]) : ShownTP(ret.data[k][i]) = <<"ET">>

\* a layer after the last pause-marked section shows the remaining time while
\* a layer before it shows the time to pause
C17_Witness ==
    /\ CountdownCalled
    /\ \E j \in PauseRange :
          /\ PauseMarked(sliced[j])
          /\ \E k \in PauseRange :
                /\ k < j
                /\ \E i \in BarLines(ret.data[k]) : ShownTP(ret.data[k][i]) # <<"ET">>
          /\ \E k \in PauseRange :
                /\ k > j
                /\ PausesFrom(k) = {}
                /\ IsLayerSection(sliced[k])
                /\ \E i \in BarLines(ret.data[k]) : ShownTP(ret.data[k][i]) = <<"ET">>

(***************************************************************************)
(* The shape of the document (SpecLCD)                                     *)
(***************************************************************************)

\* the lines of a section but for the empty ones and the end-of-document marker
RECURSIVE InputLines(_)
InputLines(section) ==
    IF section = <<>> THEN <<>>
    ELSE (IF section[1] \in {<<>>, <<";End of Gcode">>} THEN <<>> ELSE <<section[1]>>)
         \o InputLines(Tail(section))

\* the elements of a occur in b, whole and in the same order
RECURSIVE IsSubsequence(_, _)
IsSubsequence(a, b) ==
    IF a = <<>> THEN TRUE
    ELSE IF b = <<>> THEN FALSE
    ELSE IF a[1] = b[1] THEN IsSubsequence(Tail(a), Tail(b))
    ELSE IsSubsequence(a, Tail(b))

\* C18: a call that returns gives back as many sections as it was given, and
\* every line of section k of the sliced document, but for the end-of-document
\* marker, is a line of section k of the result, unaltered and in the same
\* order.
C18_ShapePreserved ==
    (ret.called /\ ret.exc = "none") =>
        /\ Len(ret.data) = Len(sliced)
        /\ \A k \in 1..Len(sliced) : IsSubsequence(InputLines(sliced[k]), ret.data[k])

(***************************************************************************)
(* Properties of loadAllScripts (SpecLoad)                                 *)
(***************************************************************************)

\* the script files of a root that define a script with settings
ValidScripts(root) ==
    IF args.folders[root] = NoFolder THEN {}
    ELSE {i \in 1..Len(ScriptNames) : args.folders[root][i] \in {"keyed", "unkeyed"}}

\* the key a valid script file registers under
RegisteredAs(root, i) ==
    IF args.folders[root][i] = "keyed" THEN SettingKey(ScriptNames[i]) ELSE ScriptNames[i]

\* C19 as claimed: after loadAllScripts, every valid script file of each of
\* the three roots is in the table of loaded scripts.
C19_AllRootsLoaded ==
    out.loads >= 1 =>
        \A root \in 1..3 :
            \A i \in ValidScripts(root) : RegisteredAs(root, i) \in DOMAIN out.loaded_scripts

(***************************************************************************)
(* Properties of the time-to-pause label (SpecTP)                          *)
(***************************************************************************)

\* the number a label spells before the unit at position p, from the unit
\* before it (or the start) on
NumberBefore(label, p) ==
    DigitsVal(DigitRun(label, IF \E q \in 1..(p - 1) : ~IsDigit(label[q])
                              THEN 1 + CHOOSE q \in 1..(p - 1) :
                                          ~IsDigit(label[q]) /\ \A r \in (q + 1)..(p - 1) : IsDigit(label[r])
                              ELSE 1))

\* the position of a unit letter in a label, 0 when it has none
UnitAt(label, unit) ==
    IF \E p \in 1..Len(label) : label[p] = unit
    THEN CHOOSE p \in 1..Len(label) : label[p] = unit
    ELSE 0

\* C20 as claimed: the label of a value under one hour reads <m>m<s>s with
\* m*60 + s the whole seconds of the value; the label of a value of one hour
\* or more reads <h>h<m>m with m at most 59 and h*3600 + m*60 within a minute
\* of the value.
C20_LabelSpellsValue ==
    out # <<>> =>
        LET ph == UnitAt(out, "h")
            pm == UnitAt(out, "m")
            ps == UnitAt(out, "s")
        IN  IF args.alt < 360000
            THEN /\ ph = 0 /\ pm > 1 /\ ps = Len(out) /\ ps > pm + 1
                 /\ NumberBefore(out, pm) * 60 + NumberBefore(out, ps) = args.alt \div 100
            ELSE /\ ph > 1 /\ pm = Len(out) /\ pm > ph + 1 /\ ps = 0
                 /\ NumberBefore(out, pm) <= 59
                 /\ (NumberBefore(out, ph) * 3600 + NumberBefore(out, pm) * 60) * 100 - args.alt
                        \in (0 - 6000)..6000

(***************************************************************************)
(* Properties of the script list (SpecList, SpecRT)                        *)
(***************************************************************************)

\* C21 as claimed: once the list that was written is read back, the script
\* list is the list before the writing: the same scripts in the same order,
\* each with the same setting keys and values.
C21_RoundTrip ==
    status \notin {"none", "written"} =>
        /\ status = "reloaded"
        /\ out.script_list = args.script_list

\* C22 as claimed: the selected index is -1 while the list is empty and an
\* index of the list otherwise.
C22_SelectedIndexValid ==
    IF out.script_list = <<>> THEN out.selected_script_index = 0 - 1
    ELSE out.selected_script_index \in 0..(Len(out.script_list) - 1)

(***************************************************************************)
(* Properties of the Marketplace (SpecMkt)                                 *)
(***************************************************************************)

\* C23 as claimed: after either signal, whenever it fires, the check has
\* completed, the restart flag tells whether packages wait to be removed or
\* installed or a plugin changed its activation, and the change was announced.
C23_RestartFlag ==
    out.last.event \in {"installedPackagesChanged", "pluginsEnabledOrDisabledChanged"} =>
        /\ out.last.exc = "none"
        /\ out.mk.restart_needed
               = (args.hasPackagesToRemoveOrInstall \/ args.changed_plugins > 0)
        /\ out.last.emitted >= 1

(***************************************************************************)
(* Properties of message_to_user (SpecMsg)                                 *)
(***************************************************************************)

\* the clock at the call, in seconds from the start of today
NowSeconds == args.now.hr * 3600 + args.now.min * 60 + args.now.sec

\* C13 as claimed: without an entered start time the finish instant is the
\* current time plus 900 seconds plus the fudge-adjusted print time; the lag is
\* 900 seconds whatever the fudge factor.
C13_LagIsFixed ==
    (out # <<>> /\ StartTimeIgnored(args.print_start_time)) =>
        /\ out.exc = "none"
        /\ out.new_time = NowSeconds + 900 + (args.print_time * args.speed_factor) \div 100

\* a 24-hour time "HH:MM"
ValidHHMM(text) ==
    /\ Len(text) = 5
    /\ text[3] = ":"
    /\ \A i \in {1, 2, 4, 5} : IsDigit(text[i])
    /\ DigitsVal(SubSeq(text, 1, 2)) <= 23
    /\ DigitsVal(SubSeq(text, 4, 5)) <= 59

\* C14 as claimed: an entered start time that is no valid HH:MM time raises
\* nothing and is ignored, the start being the current time; only a valid one
\* is used as the start.
C14_InvalidIgnored ==
    out # <<>> =>
        /\ out.exc = "none"
        /\ IF ValidHHMM(args.print_start_time)
           THEN /\ out.print_start_time = args.print_start_time
                /\ out.date_and_time = DigitsVal(SubSeq(args.print_start_time, 1, 2)) * 3600
                                          + DigitsVal(SubSeq(args.print_start_time, 4, 5)) * 60
           ELSE /\ out.print_start_time = <<>>
                /\ out.date_and_time = NowSeconds

\* the hour of the day of the finish instant
FinishHour == (out.new_time \div 3600) % 24

\* C15 as claimed: the time shown is the finish time on the 12-hour clock: PM
\* exactly from hour 12 on, the hour shown 12 for the hours 0 and 12 and the
\* hour modulo 12 otherwise.
C15_TwelveHour ==
    (out # <<>> /\ out.exc = "none") =>
        LET colon == FirstTok(out.at, {":"}, 1)
            shown == DigitsVal(SubSeq(out.at, 1, colon - 1))
        IN  /\ out.at[Len(out.at)] = (IF FinishHour >= 12 THEN " PM" ELSE " AM")
            /\ shown = (IF FinishHour % 12 = 0 THEN 12 ELSE FinishHour % 12)

(***************************************************************************)
(* Properties of the remaining-time text (SpecFmt)                         *)
(***************************************************************************)

\* M = int(((total - elapsed) // 60) * fudge), for elapsed <= total
RemainingMinutes == (((args.time_total - args.time_elapsed) \div 60) * args.speed_factor) \div 100

\* a run of digits that is the decimal numeral of n, without padding
IsNumeral(s, n) ==
    /\ AllDigits(s)
    /\ DigitsVal(s) = n
    /\ (Len(s) > 1 => s[1] # "0")

\* C10: the suffix is " | ET <h>h<mm>m" with the minutes on exactly two digits
\* when h > 0, and " | ET <m>m" with no hour part and unpadded minutes when
\* h = 0, for h = M div 60 and m = M mod 60.
C10_SuffixFormat ==
    out # <<>> =>
        LET h == RemainingMinutes \div 60
            m == RemainingMinutes % 60
            p == FirstTok(out, {"h"}, 1)
        IN  /\ out[1] = " | ET "
            /\ out[Len(out)] = "m"
            /\ IF h > 0
               THEN /\ p = Len(out) - 3
                    /\ IsNumeral(SubSeq(out, 2, p - 1), h)
                    /\ AllDigits(SubSeq(out, p + 1, p + 2))
                    /\ DigitsVal(SubSeq(out, p + 1, p + 2)) = m
               ELSE /\ p > Len(out)
                    /\ IsNumeral(SubSeq(out, 2, Len(out) - 1), m)

C10_Witness ==
    /\ out = <<" | ET ", "1", "h", "0", "5", "m">>
    /\ args.speed_factor = 87

====
